---------------------------- MODULE Spec2Model ----------------------------
(***************************************************************************)
(* export-scanner: listExportNames, getExports and analyzeExports walking  *)
(* an in-memory object graph (the Subject).                                *)
(*                                                                         *)
(* The Subject graph is a heap of JavaScript objects; each public call is  *)
(* run as a stack machine over it: one step enters an explore call, one    *)
(* visits one key of the node on top of the stack, one runs the prototype  *)
(* block and returns.                                                      *)
(***************************************************************************)
EXTENDS Integers, Sequences, FiniteSets, TLC

VARIABLES
    heap,       \* the Subject graph: object id -> object
    pkg,        \* the value passed as pkg
    options,    \* the options argument of the public call
    op,         \* the public operation called ("" before the call)
    pc,         \* "idle", "run", "done" or "thrown"
    pass,       \* analyzeExports: which listExportNames call runs (0: none)
    stack,      \* explore / extractCallables activation records
    todo,       \* statements of the public function still to run
    exports,    \* listExportNames: const exports: string[]
    visited,    \* const visited = new WeakSet()
    functions,  \* getExports: const functions
    classes,    \* getExports: const classes
    first,      \* analyzeExports: const functions (the first call's result)
    ret,        \* what the public call returned
    calls,      \* instrumentation: number of explore/extractCallables calls
    entered,    \* instrumentation: the nodes entered with their paths, in order
    history     \* instrumentation: the calls that returned before this one

vars == <<heap, pkg, options, op, pc, pass, stack, todo, exports, visited,
          functions, classes, first, ret, calls, entered, history>>

-----------------------------------------------------------------------------
(* Bounds *)

\* maxDepth is drawn from -1 .. MaxDepthOpt, and Infinity
MaxDepthOpt == 2

\* the number of properties a Subject's root holds beside default and
\* __esModule
MaxExtra == 1

\* the longest chain of nested plain objects in the depth Subjects
ChainLen == 4

\* the number of properties a cyclic Subject's root holds beside default and
\* __esModule
MaxCycleExtra == 2

\* Number.POSITIVE_INFINITY as a maxDepth: above every depth a call reaches
Infinity == 1000

\* the number of calls a caller makes on one Subject before the last one
MaxHistory == 2

\* the longest property path followed from a Subject's root, in keys
MaxPathLen == 3

\* the number of named exports a module object holds beside default and
\* __esModule in the wide-module Subjects
MaxNamed == 3

-----------------------------------------------------------------------------
(* JavaScript values *)

Undefined == [t |-> "undefined", id |-> "", truthy |-> FALSE]
Null == [t |-> "null", id |-> "", truthy |-> FALSE]
Prim(ty, truthy) == [t |-> ty, id |-> "", truthy |-> truthy]
Ref(o) == [t |-> "ref", id |-> o, truthy |-> TRUE]

Str == Prim("string", TRUE)
Num == Prim("number", TRUE)
True == Prim("boolean", TRUE)

IsRef(v) == v.t = "ref"

\* typeof v
TypeOf(v) ==
    CASE v.t = "undefined" -> "undefined"
      [] v.t = "null" -> "object"
      [] v.t = "ref" -> heap[v.id].type
      [] OTHER -> v.t

\* Array.isArray(v)
IsArray(v) == IsRef(v) /\ heap[v.id].array

Range(s) == {s[i] : i \in 1..Len(s)}

\* a data property, and an accessor property (value: what the getter returns)
Data(k, e, v) ==
    [key |-> k, enum |-> e, acc |-> FALSE, get |-> FALSE, set |-> FALSE,
     throws |-> FALSE, value |-> v]
Accessor(k, e, g, s, th, v) ==
    [key |-> k, enum |-> e, acc |-> TRUE, get |-> g, set |-> s,
     throws |-> th, value |-> v]

\* Object.getOwnPropertyNames(o)
OwnNames(o) == [i \in 1..Len(heap[o].props) |-> heap[o].props[i].key]

\* Object.keys(o)
EnumKeys(o) ==
    LET en == SelectSeq(heap[o].props, LAMBDA p : p.enum)
    IN  [i \in 1..Len(en) |-> en[i].key]

HasOwn(o, k) == \E i \in 1..Len(heap[o].props) : heap[o].props[i].key = k

\* Object.getOwnPropertyDescriptor(o, k), for an own key
Descriptor(o, k) ==
    heap[o].props[CHOOSE i \in 1..Len(heap[o].props) : heap[o].props[i].key = k]

\* o[k]: [ok |-> FALSE] when the read throws. A key that is not an own
\* property reads as undefined (the intrinsic prototypes hold none of the
\* keys a Subject is asked for here).
Read(o, k) ==
    IF ~HasOwn(o, k) THEN [ok |-> TRUE, v |-> Undefined]
    ELSE LET d == Descriptor(o, k)
         IN  IF d.acc /\ d.get /\ d.throws THEN [ok |-> FALSE, v |-> Undefined]
             ELSE IF d.acc /\ ~d.get THEN [ok |-> TRUE, v |-> Undefined]
             ELSE [ok |-> TRUE, v |-> d.value]

\* v[k] for any value the code reads a property of
ReadVal(v, k) ==
    IF IsRef(v) THEN Read(v.id, k) ELSE [ok |-> TRUE, v |-> Undefined]

-----------------------------------------------------------------------------
(* Strings: the property keys of the Subjects, spelled out in characters *)

Chars ==
    "a" :> <<"a">> @@ "b" :> <<"b">> @@ "f" :> <<"f">> @@ "h" :> <<"h">> @@
    "l" :> <<"l">> @@ "m" :> <<"m">> @@ "n" :> <<"n">> @@ "s" :> <<"s">> @@
    "x" :> <<"x">> @@ "z" :> <<"z">> @@ "K" :> <<"K">> @@ "0" :> <<"0">> @@
    "_p" :> <<"_", "p">> @@ "rx" :> <<"r", "x">> @@
    "arr" :> <<"a", "r", "r">> @@ "nat" :> <<"n", "a", "t">> @@
    "C" :> <<"C">> @@ "up" :> <<"u", "p">> @@ "me" :> <<"m", "e">> @@
    "y" :> <<"y">> @@ "Q" :> <<"Q">> @@ "t" :> <<"t">> @@ "v" :> <<"v">> @@
    "_q" :> <<"_", "q">> @@ "_pm" :> <<"_", "p", "m">> @@
    "map" :> <<"m", "a", "p">> @@ "e" :> <<"e">> @@ "c" :> <<"c">> @@
    "stack" :> <<"s", "t", "a", "c", "k">> @@
    "valueOf" :> <<"v", "a", "l", "u", "e", "O", "f">> @@
    "T" :> <<"T">> @@ "W" :> <<"W">> @@ "Inner" :> <<"I", "n", "n", "e", "r">> @@
    "lastIndex" :> <<"l", "a", "s", "t", "I", "n", "d", "e", "x">> @@
    "acc" :> <<"a", "c", "c">> @@ "self" :> <<"s", "e", "l", "f">> @@
    "deep" :> <<"d", "e", "e", "p">> @@ "name" :> <<"n", "a", "m", "e">> @@
    "main" :> <<"m", "a", "i", "n">> @@
    "length" :> <<"l", "e", "n", "g", "t", "h">> @@
    "default" :> <<"d", "e", "f", "a", "u", "l", "t">> @@
    "prototype" :> <<"p", "r", "o", "t", "o", "t", "y", "p", "e">> @@
    "__esModule" :> <<"_", "_", "e", "s", "M", "o", "d", "u", "l", "e">> @@
    "constructor" :> <<"c", "o", "n", "s", "t", "r", "u", "c", "t", "o", "r">>

\* the UTF-16 code unit of each character above
CodeUnit ==
    "0" :> 48 @@ "C" :> 67 @@ "I" :> 73 @@ "K" :> 75 @@ "O" :> 79 @@ "k" :> 107 @@ "M" :> 77 @@
    "Q" :> 81 @@ "T" :> 84 @@ "W" :> 87 @@ "_" :> 95 @@ "a" :> 97 @@ "q" :> 113 @@ "v" :> 118 @@
    "b" :> 98 @@ "c" :> 99 @@ "d" :> 100 @@ "e" :> 101 @@ "f" :> 102 @@
    "g" :> 103 @@ "h" :> 104 @@ "i" :> 105 @@ "l" :> 108 @@ "m" :> 109 @@
    "n" :> 110 @@ "o" :> 111 @@ "p" :> 112 @@ "r" :> 114 @@ "s" :> 115 @@
    "t" :> 116 @@ "u" :> 117 @@ "x" :> 120 @@ "y" :> 121 @@ "z" :> 122

\* key.startsWith(prefix), prefix given in characters
StartsWith(key, prefix) ==
    /\ Len(Chars[key]) >= Len(prefix)
    /\ \A i \in 1..Len(prefix) : Chars[key][i] = prefix[i]

\* a < b in the order Array.prototype.sort() uses without a comparator:
\* by UTF-16 code units, a proper prefix first
StrLess(a, b) ==
    LET ca == Chars[a]
        cb == Chars[b]
    IN  \E i \in 1..(Len(cb)) :
            /\ \A j \in 1..(i - 1) : j <= Len(ca) /\ ca[j] = cb[j]
            /\ \/ i > Len(ca)
               \/ i <= Len(ca) /\ CodeUnit[ca[i]] < CodeUnit[cb[i]]

RECURSIVE SortSet(_)
SortSet(S) ==
    IF S = {} THEN <<>>
    ELSE LET least == CHOOSE x \in S : \A y \in S : ~StrLess(y, x)
         IN  <<least>> \o SortSet(S \ {least})

\* keys.sort(), for an array of distinct strings
Sort(keys) == SortSet(Range(keys))

\* [...s]: every element kept
KeepAll(s) == s

\* [...new Set(s)]: the first occurrence of each element, in order
Dedupe(s) ==
    LET firsts == SelectSeq([i \in 1..Len(s) |-> i],
                            LAMBDA i : \A j \in 1..(i - 1) : s[j] /= s[i])
    IN  [n \in 1..Len(firsts) |-> s[firsts[n]]]

-----------------------------------------------------------------------------
(* Classification layer *)

\* constructors of the intrinsic prototypes isBuiltinObject lists
BuiltinConstructors ==
    {"Object", "Array", "Function", "String", "Number", "Boolean", "Date",
     "RegExp", "Error", "Promise", "Map", "Set", "WeakMap", "WeakSet"}

\* o.constructor: the own property, or the inherited one
ConstructorOf(o) ==
    IF HasOwn(o, "constructor") /\ IsRef(Read(o, "constructor").v)
    THEN Read(o, "constructor").v.id
    ELSE heap[o].ctor

\* isBuiltinObject without its instanceof RegExp test
NoRegExpTest(v) ==
    IF v.t \in {"null", "undefined"} THEN TRUE
    ELSE IF ~IsRef(v) THEN TRUE
    ELSE LET o == heap[v.id]
             c == ConstructorOf(v.id)
         IN  IF o.intrinsic THEN TRUE
             ELSE IF /\ c \in BuiltinConstructors
                     /\ c \in {"String", "Number", "Boolean", "Date",
                               "RegExp", "Error"}
             THEN o.valueOfOwn \/ o.valueOfType /= "object"
             ELSE IF o.type = "function"
             THEN o.src \in {"native", "throws"}
             ELSE FALSE

isBuiltinObject(v) ==
    IF v.t \in {"null", "undefined"} THEN TRUE
    ELSE IF ~IsRef(v)
    THEN \* a primitive: its constructor is String, Number or Boolean and
         \* typeof v.valueOf() is the primitive's type
         TRUE
    ELSE LET o == heap[v.id]
             c == ConstructorOf(v.id)
         IN  IF o.regexp THEN TRUE
             ELSE IF o.intrinsic THEN TRUE
             ELSE IF /\ c \in BuiltinConstructors
                     /\ c \in {"String", "Number", "Boolean", "Date",
                               "RegExp", "Error"}
             THEN o.valueOfOwn \/ o.valueOfType /= "object"
             ELSE IF o.type = "function"
             THEN o.src \in {"native", "throws"}
             ELSE FALSE

shouldExcludeKey(key, includePrivate, excludedKeys) ==
    IF key \in excludedKeys THEN TRUE
    ELSE IF ~includePrivate
            /\ (StartsWith(key, <<"_">>) \/ StartsWith(key, <<"_", "_">>))
    THEN TRUE
    ELSE IF key \in {"valueOf", "toString", "hasOwnProperty", "isPrototypeOf",
                     "propertyIsEnumerable", "toLocaleString", "constructor"}
    THEN TRUE
    ELSE IF key \in {"apply", "bind", "call"} THEN TRUE
    ELSE IF key \in {"exec", "test", "compile", "source", "global",
                     "ignoreCase", "multiline", "sticky", "unicode", "flags",
                     "dotAll"}
    THEN TRUE
    ELSE IF key \in {"default", "__esModule", "__version", "__dirname",
                     "__filename", "__webpack_require__",
                     "__webpack_exports__", "module", "exports", "require",
                     "global", "process", "__non_webpack_require__"}
    THEN TRUE
    ELSE IF key \in {"module", "exports", "require", "global", "process"}
    THEN TRUE
    ELSE IF key \in {"length", "size", "version", "VERSION"} THEN TRUE
    ELSE IF key = "placeholder" THEN TRUE
    ELSE FALSE

isClass(fn) ==
    IF TypeOf(fn) /= "function" THEN FALSE
    ELSE IF heap[fn.id].src = "throws" THEN FALSE
    ELSE IF heap[fn.id].src = "class" THEN TRUE
    ELSE LET proto == Read(fn.id, "prototype")
         IN  IF ~proto.ok THEN FALSE
             ELSE IF /\ proto.v.truthy
                     /\ IsRef(proto.v)
                     /\ ConstructorOf(proto.v.id) = fn.id
             THEN LET protoProps == OwnNames(proto.v.id)
                  IN  \/ Len(protoProps) > 1
                      \/ Len(protoProps) = 1 /\ protoProps[1] /= "constructor"
             ELSE FALSE

-----------------------------------------------------------------------------
(* The options of the running call, with their defaults *)

Given(name) == name \in options.given

\* a maxDepth validated on entry: a negative one replaced by the default
ValidatedMaxDepth ==
    IF Given("maxDepth") /\ options.maxDepth >= 0 THEN options.maxDepth ELSE 3

maxDepth == IF Given("maxDepth") THEN options.maxDepth ELSE 3

\* a caller's list that is added to the default list
MergedExcludedKeys ==
    {"constructor", "prototype", "caller", "arguments", "name", "length"}
    \cup (IF Given("excludedKeys") THEN options.excludedKeys ELSE {})

excludedKeys ==
    IF Given("excludedKeys") THEN options.excludedKeys
    ELSE {"constructor", "prototype", "caller", "arguments", "name", "length"}

includePrivate ==
    IF Given("includePrivate") THEN options.includePrivate ELSE FALSE

\* an analyzeExports that passes its options on as they are
CallerIncludeNonFunctions ==
    IF Given("includeNonFunctions") THEN options.includeNonFunctions
    ELSE FALSE

\* an analyzeExports that includes the non-functions in its first call and
\* leaves them out of its second
SwappedIncludeNonFunctions ==
    IF op = "analyzeExports" THEN pass = 1
    ELSE IF Given("includeNonFunctions") THEN options.includeNonFunctions
    ELSE FALSE

\* analyzeExports passes { ...options, includeNonFunctions: false } to its
\* first listExportNames call and { ...options, includeNonFunctions: true }
\* to its second
includeNonFunctions ==
    IF op = "analyzeExports" THEN pass = 2
    ELSE IF Given("includeNonFunctions") THEN options.includeNonFunctions
    ELSE FALSE

followPrototypes ==
    IF Given("followPrototypes") THEN options.followPrototypes ELSE TRUE

includeClasses ==
    IF Given("includeClasses") THEN options.includeClasses ELSE TRUE

-----------------------------------------------------------------------------
(* Helpers of the traversal *)

Frame(v, path, depth) ==
    [obj |-> v, path |-> path, depth |-> depth, phase |-> "enter",
     keys |-> <<>>]

Top == stack[Len(stack)]
Pop == SubSeq(stack, 1, Len(stack) - 1)
ReplaceTop(f) == [stack EXCEPT ![Len(stack)] = f]

\* const newPath = key
KeyOnly(path, key) == key

\* path ? `${path}.${key}` : key
JoinPath(path, key) == IF path /= "" THEN path \o "." \o key ELSE key

\* `${path} (${type})`, type = Array.isArray(v) ? 'array' : typeof v
Annotated(path, v) ==
    path \o " (" \o (IF IsArray(v) THEN "array" ELSE TypeOf(v)) \o ")"

\* Array.from(new Set([...Object.keys(obj), ...Object.getOwnPropertyNames(obj)]))
AllKeys(o) == Dedupe(EnumKeys(o) \o OwnNames(o))

\* const filteredKeys = Array.from(allKeys)
UnfilteredKeys(o) == AllKeys(o)

\* Array.from(allKeys).filter(key => !shouldExcludeKey(key, ...))
FilteredKeys(o) ==
    SelectSeq(AllKeys(o),
              LAMBDA k : ~shouldExcludeKey(k, includePrivate, excludedKeys))

\* a visited set kept from the call before
SharedWeakSet == visited

\* const visited = new WeakSet()
NewWeakSet == {}

\* a key loop without its getter/setter branch
NoAccessor(descriptor) == FALSE

\* descriptor && (descriptor.get || descriptor.set) && !descriptor.value
IsAccessor(descriptor) ==
    descriptor.acc /\ (descriptor.get \/ descriptor.set)

\* a walk that records no node it enters
NotAdded(obj) == visited

\* visited.add(obj)
AddVisited(obj) == visited \cup {obj.id}

\* a walk that keeps no visited set
NeverVisited(obj) == FALSE

\* visited.has(obj)
AlreadyVisited(obj) == obj.id \in visited

\* const exportName = path
PathOnly(path) == path

\* const exportName = path || 'main'
ExportName(path) == IF path /= "" THEN path ELSE "main"

\* an annotated entry that does not read includeNonFunctions
ListsNonFunctionAlways(value) ==
    /\ TypeOf(value) /= "function"
    /\ value.t /= "null"
    /\ value.t /= "undefined"

\* the guard of the annotated entry of a property value, in explore's loop
ListsNonFunction(value) ==
    /\ includeNonFunctions
    /\ TypeOf(value) /= "function"
    /\ value.t /= "null"
    /\ value.t /= "undefined"

\* a recursive call guarded by depth + 1 < maxDepth
RecurseOneShort(value, depth) ==
    /\ TypeOf(value) \in {"object", "function"}
    /\ value.t /= "null"
    /\ depth + 1 < maxDepth
    /\ ~isBuiltinObject(value)

\* the guard of the recursive call, in explore and in extractCallables
ShouldRecurse(value, depth) ==
    /\ TypeOf(value) \in {"object", "function"}
    /\ value.t /= "null"
    /\ depth < maxDepth
    /\ ~isBuiltinObject(value)

\* a prototype block that does not read followPrototypes
PrototypeBlockAlways(v) ==
    /\ TypeOf(v) = "function"
    /\ Read(v.id, "prototype").ok
    /\ Read(v.id, "prototype").v.truthy
    /\ ~isBuiltinObject(Read(v.id, "prototype").v)

\* the guard of the prototype block, in explore and in extractCallables
HasPrototypeBlock(v) ==
    /\ followPrototypes
    /\ TypeOf(v) = "function"
    /\ Read(v.id, "prototype").ok
    /\ Read(v.id, "prototype").v.truthy
    /\ ~isBuiltinObject(Read(v.id, "prototype").v)

\* a class name that is the function's name under the path it was reached by
QualifiedClassName(v, path) ==
    JoinPath(path, IF heap[v.id].fname /= "" THEN heap[v.id].fname
                   ELSE "UnknownClass")

\* const className = path || obj.name || 'UnknownClass'
ClassName(v, path) ==
    IF path /= "" THEN path
    ELSE IF heap[v.id].fname /= "" THEN heap[v.id].fname
    ELSE "UnknownClass"

\* the keys of obj.prototype the prototype block reports: not excluded, and
\* holding a function as a data property; in Object.getOwnPropertyNames order
PrototypeMethods(v) ==
    LET proto == Read(v.id, "prototype").v.id
    IN  SelectSeq(OwnNames(proto),
            LAMBDA k : /\ ~shouldExcludeKey(k, includePrivate, excludedKeys)
                       /\ ~Descriptor(proto, k).acc
                       /\ TypeOf(Descriptor(proto, k).value) = "function")

\* a Name Lister and a Callable Extractor that unwrap no default export
NoDefaultOnlyPattern(keys) == FALSE

\* an unwrapping that looks for the default export only
AnyDefaultPattern(keys) == "default" \in Range(keys)

\* (keys.length === 1 && keys[0] === 'default')
\* || (keys.length <= 3 && keys.includes('default') && keys.includes('__esModule'))
DefaultOnlyPattern(keys) ==
    \/ Len(keys) = 1 /\ keys[1] = "default"
    \/ Len(keys) <= 3 /\ "default" \in Range(keys) /\ "__esModule" \in Range(keys)

\* keys.filter(k => k !== 'default' && k !== '__esModule')
NamedKeys(keys) ==
    SelectSeq(keys, LAMBDA k : k /= "default" /\ k /= "__esModule")

\* functions[methodPath] = obj.prototype
PrototypeAsEntry(className, proto, key) ==
    [key |-> className \o ".prototype." \o key, value |-> proto]

\* functions[methodPath] = descriptor.value, for the key of obj.prototype
MethodEntry(className, proto, key) ==
    [key |-> className \o ".prototype." \o key,
     value |-> Descriptor(proto, key).value.id]

\* typeof pkg === 'object' alone
TypeofObject(v) == TypeOf(v) = "object"

\* isObject: typeof pkg === 'object' && pkg !== null
isObject(v) == TypeOf(v) = "object" /\ v.t /= "null"

NoResult ==
    [names |-> <<>>, allExports |-> <<>>, map |-> <<>>,
     summary |-> [totalFunctions |-> 0, totalExports |-> 0,
                  hasDefault |-> FALSE, isFunction |-> FALSE,
                  isObject |-> FALSE]]

-----------------------------------------------------------------------------
(* listExportNames *)

\* the caller invokes listExportNames(pkg, o): the options are bound, and
\* exports and visited are created empty
ListExportNames(o) ==
    /\ pc = "idle"
    /\ op' = "listExportNames"
    /\ options' = o
    /\ pass' = 0
    /\ pc' = "begin"
    /\ exports' = <<>>
    /\ visited' = NewWeakSet
    /\ calls' = 0
    /\ entered' = <<>>
    /\ UNCHANGED <<heap, pkg, history,
                   stack, todo, functions, classes, first, ret>>

\* the body of listExportNames up to its first explore call
ListBegin ==
    /\ pc = "begin"
    /\ op \in {"listExportNames", "analyzeExports"}
    /\ LET def == ReadVal(pkg, "default")
           keys == EnumKeys(pkg.id)
           dkeys == EnumKeys(def.v.id)
           return(r) ==
               /\ pc' = IF op = "analyzeExports" THEN "between" ELSE "done"
               /\ ret' = [NoResult EXCEPT !.names = r]
               /\ UNCHANGED <<stack, todo, exports, calls>>
           run(v, named, pushed) ==
               /\ pc' = "run"
               /\ stack' = <<Frame(v, "", 0)>>
               /\ todo' = named
               /\ exports' = exports \o pushed
               /\ calls' = calls + 1
               /\ ret' = ret
       IN  IF pkg.truthy /\ (~IsRef(pkg) \/ ~def.ok)
           THEN \* 'default' in pkg on a primitive, or pkg.default, throws
                /\ pc' = "thrown"
                /\ UNCHANGED <<stack, todo, exports, calls, ret>>
           ELSE IF pkg.t \in {"null", "undefined"}
           THEN return(<<>>)
           ELSE IF /\ TypeOf(pkg) = "object"
                   /\ def.v.t /= "undefined"
                   /\ DefaultOnlyPattern(keys)
           THEN IF /\ TypeOf(def.v) = "object"
                   /\ def.v.t /= "null"
                   /\ Len(dkeys) > 0
                THEN run(def.v, NamedKeys(keys), <<>>)
                ELSE IF TypeOf(def.v) = "function"
                THEN run(pkg, <<>>, <<"default">>)
                ELSE run(pkg, <<>>, <<>>)
           ELSE run(pkg, <<>>, <<>>)
    /\ UNCHANGED <<heap, pkg, history,
                   options, op, pass, visited, functions, classes,
                   first, entered>>

\* explore, from its call to the start of its loop over the keys
ExploreEnter ==
    /\ pc = "run"
    /\ op \in {"listExportNames", "analyzeExports"}
    /\ stack /= <<>>
    /\ Top.phase = "enter"
    /\ LET obj == Top.obj
           path == Top.path
       IN  IF Top.depth > maxDepth \/ obj.t = "null" \/ isBuiltinObject(obj)
           THEN /\ stack' = Pop
                /\ UNCHANGED <<exports, visited, entered>>
           ELSE IF AlreadyVisited(obj)
           THEN /\ stack' = Pop
                /\ UNCHANGED <<exports, visited, entered>>
           ELSE /\ visited' = AddVisited(obj)
                /\ entered' = Append(entered, [id |-> obj.id, path |-> path])
                /\ exports' = exports
                     \o (IF TypeOf(obj) = "function"
                         THEN <<ExportName(path)>>
                         ELSE <<>>)
                     \o (IF /\ includeNonFunctions
                            /\ path /= ""
                            /\ TypeOf(obj) /= "function"
                         THEN <<Annotated(path, obj)>>
                         ELSE <<>>)
                /\ stack' = ReplaceTop([Top EXCEPT
                                !.phase = "keys",
                                !.keys = Sort(FilteredKeys(obj.id))])
    /\ UNCHANGED <<heap, pkg, history,
                   options, op, pc, pass, todo, functions, classes,
                   first, ret, calls>>

\* one iteration of explore's loop over filteredKeys
ExploreKey ==
    /\ pc = "run"
    /\ op \in {"listExportNames", "analyzeExports"}
    /\ stack /= <<>>
    /\ Top.phase = "keys"
    /\ Top.keys /= <<>>
    /\ LET obj == Top.obj
           key == Head(Top.keys)
           descriptor == Descriptor(obj.id, key)
           value == descriptor.value
           newPath == JoinPath(Top.path, key)
           rest == ReplaceTop([Top EXCEPT !.keys = Tail(Top.keys)])
       IN  IF IsAccessor(descriptor)
           THEN /\ exports' = Append(exports, newPath)
                /\ stack' = rest
                /\ calls' = calls
           ELSE /\ exports' = exports
                     \o (IF TypeOf(value) = "function" THEN <<newPath>>
                         ELSE <<>>)
                     \o (IF ListsNonFunction(value)
                         THEN <<Annotated(newPath, value)>>
                         ELSE <<>>)
                /\ IF ShouldRecurse(value, Top.depth)
                   THEN /\ stack' = Append(rest, Frame(value, newPath, Top.depth + 1))
                        /\ calls' = calls + 1
                   ELSE /\ stack' = rest
                        /\ calls' = calls
    /\ UNCHANGED <<heap, pkg, history,
                   options, op, pc, pass, todo, visited, functions,
                   classes, first, ret, entered>>

\* explore after its loop: the prototype block, and the return
ExploreLeave ==
    /\ pc = "run"
    /\ op \in {"listExportNames", "analyzeExports"}
    /\ stack /= <<>>
    /\ Top.phase = "keys"
    /\ Top.keys = <<>>
    /\ LET obj == Top.obj
           className == ClassName(obj, Top.path)
           methods == PrototypeMethods(obj)
       IN  exports' =
               IF HasPrototypeBlock(obj)
               THEN exports \o [i \in 1..Len(methods) |->
                                    className \o "." \o methods[i]]
               ELSE exports
    /\ stack' = Pop
    /\ UNCHANGED <<heap, pkg, history,
                   options, op, pc, pass, todo, visited, functions,
                   classes, first, ret, calls, entered>>

\* one iteration of the loop over the named exports beside default
ListNamedExport ==
    /\ pc = "run"
    /\ op \in {"listExportNames", "analyzeExports"}
    /\ stack = <<>>
    /\ todo /= <<>>
    /\ LET key == Head(todo)
           r == Read(pkg.id, key)
       IN  IF ~r.ok
           THEN UNCHANGED <<exports, stack, calls>>
           ELSE /\ exports' = exports
                     \o (IF TypeOf(r.v) = "function" THEN <<key>>
                         ELSE IF includeNonFunctions
                         THEN <<Annotated(key, r.v)>>
                         ELSE <<>>)
                /\ stack' = <<Frame(r.v, key, 1)>>
                /\ calls' = calls + 1
    /\ todo' = Tail(todo)
    /\ UNCHANGED <<heap, pkg, history,
                   options, op, pc, pass, visited, functions,
                   classes, first, ret, entered>>

\* return [...new Set(exports)]
ListReturn ==
    /\ pc = "run"
    /\ op \in {"listExportNames", "analyzeExports"}
    /\ stack = <<>>
    /\ todo = <<>>
    /\ ret' = [NoResult EXCEPT !.names = Dedupe(exports)]
    /\ pc' = IF op = "analyzeExports" THEN "between" ELSE "done"
    /\ UNCHANGED <<heap, pkg, history,
                   options, op, pass, stack, todo, exports, visited,
                   functions, classes, first, calls, entered>>

-----------------------------------------------------------------------------
(* analyzeExports *)

\* the caller invokes analyzeExports(pkg, o); its first statement calls
\* listExportNames(pkg, { ...options, includeNonFunctions: false })
AnalyzeExports(o) ==
    /\ pc = "idle"
    /\ op' = "analyzeExports"
    /\ options' = o
    /\ pass' = 1
    /\ pc' = "begin"
    /\ exports' = <<>>
    /\ visited' = NewWeakSet
    /\ calls' = 0
    /\ entered' = <<>>
    /\ UNCHANGED <<heap, pkg, history,
                   stack, todo, functions, classes, first, ret>>

\* const functions = (the first call's result); the second statement calls
\* listExportNames(pkg, { ...options, includeNonFunctions: true })
AnalyzeSecond ==
    /\ pc = "between"
    /\ pass = 1
    /\ first' = ret.names
    /\ pass' = 2
    /\ pc' = "begin"
    /\ exports' = <<>>
    /\ visited' = NewWeakSet
    /\ calls' = 0
    /\ entered' = <<>>
    /\ UNCHANGED <<heap, pkg, history,
                   options, op, stack, todo, functions, classes, ret>>

\* const allExports = (the second call's result), and the returned record
AnalyzeReturn ==
    /\ pc = "between"
    /\ pass = 2
    /\ ret' = [names |-> first,
               allExports |-> ret.names,
               map |-> <<>>,
               summary |->
                   [totalFunctions |-> Len(first),
                    totalExports |-> Len(ret.names),
                    hasDefault |-> ReadVal(pkg, "default").v.t /= "undefined",
                    isFunction |-> TypeOf(pkg) = "function",
                    isObject |-> isObject(pkg)]]
    /\ pc' = "done"
    /\ UNCHANGED <<heap, pkg, history,
                   options, op, pass, stack, todo, exports, visited,
                   functions, classes, first, calls, entered>>

-----------------------------------------------------------------------------
(* getExports *)

\* a Record<string, Function> as the sequence of its entries, in insertion
\* order; Lookup is m[k], Assign is m[k] = v
HasKey(m, k) == \E i \in 1..Len(m) : m[i].key = k
Lookup(m, k) == m[CHOOSE i \in 1..Len(m) : m[i].key = k].value
Assign(m, k, v) ==
    IF HasKey(m, k)
    THEN [i \in 1..Len(m) |-> IF m[i].key = k THEN [key |-> k, value |-> v]
                              ELSE m[i]]
    ELSE Append(m, [key |-> k, value |-> v])

RECURSIVE AssignAll(_, _)
AssignAll(m, entries) ==
    IF entries = <<>> THEN m
    ELSE AssignAll(Assign(m, Head(entries).key, Head(entries).value),
                   Tail(entries))

\* the caller invokes getExports(pkg, o): the options are bound, and
\* functions, classes and visited are created empty
GetExports(o) ==
    /\ pc = "idle"
    /\ op' = "getExports"
    /\ options' = o
    /\ pass' = 0
    /\ pc' = "begin"
    /\ functions' = <<>>
    /\ classes' = <<>>
    /\ visited' = NewWeakSet
    /\ calls' = 0
    /\ entered' = <<>>
    /\ UNCHANGED <<heap, pkg, history, stack, todo, exports, first, ret>>

\* the body of getExports up to its first extractCallables call
GetBegin ==
    /\ pc = "begin"
    /\ op = "getExports"
    /\ LET def == ReadVal(pkg, "default")
           keys == EnumKeys(pkg.id)
           run(frames, named, fns, cls) ==
               /\ pc' = "run"
               /\ stack' = frames
               /\ todo' = named
               /\ functions' = fns
               /\ classes' = cls
               /\ calls' = calls + Len(frames)
               /\ ret' = ret
       IN  IF pkg.t \in {"null", "undefined"}
           THEN /\ pc' = "done"
                /\ ret' = NoResult
                /\ UNCHANGED <<stack, todo, functions, classes, calls>>
           ELSE IF TypeOf(pkg) = "object" /\ ~def.ok
           THEN \* pkg.default throws
                /\ pc' = "thrown"
                /\ UNCHANGED <<stack, todo, functions, classes, calls, ret>>
           ELSE IF TypeOf(pkg) = "object" /\ def.v.t /= "undefined"
           THEN IF DefaultOnlyPattern(keys)
                THEN IF TypeOf(def.v) = "function"
                     THEN IF isClass(def.v)
                          THEN run(<<>>, NamedKeys(keys), functions,
                                   Assign(classes, "default", def.v.id))
                          ELSE run(<<>>, NamedKeys(keys),
                                   Assign(functions, "default", def.v.id),
                                   classes)
                     ELSE IF TypeOf(def.v) = "object" /\ def.v.t /= "null"
                     THEN run(<<Frame(def.v, "", 0)>>, NamedKeys(keys),
                              functions, classes)
                     ELSE run(<<>>, NamedKeys(keys), functions, classes)
                ELSE run(<<Frame(pkg, "", 0)>>, <<>>, functions, classes)
           ELSE run(<<Frame(pkg, "", 0)>>, <<>>, functions, classes)
    /\ UNCHANGED <<heap, pkg, history,
                   options, op, pass, exports, visited, first,
                   entered>>

\* extractCallables, from its call to the start of its loop over the keys
ExtractEnter ==
    /\ pc = "run"
    /\ op = "getExports"
    /\ stack /= <<>>
    /\ Top.phase = "enter"
    /\ LET obj == Top.obj
           exportPath == ExportName(Top.path)
       IN  IF Top.depth > maxDepth \/ obj.t = "null" \/ isBuiltinObject(obj)
           THEN /\ stack' = Pop
                /\ UNCHANGED <<functions, classes, visited, entered>>
           ELSE IF AlreadyVisited(obj)
           THEN /\ stack' = Pop
                /\ UNCHANGED <<functions, classes, visited, entered>>
           ELSE /\ visited' = AddVisited(obj)
                /\ entered' = Append(entered, [id |-> obj.id, path |-> Top.path])
                /\ classes' =
                       IF TypeOf(obj) = "function" /\ isClass(obj)
                       THEN Assign(classes, exportPath, obj.id)
                       ELSE classes
                /\ functions' =
                       IF TypeOf(obj) = "function" /\ ~isClass(obj)
                       THEN Assign(functions, exportPath, obj.id)
                       ELSE functions
                /\ stack' = ReplaceTop([Top EXCEPT
                                !.phase = "keys",
                                !.keys = FilteredKeys(obj.id)])
    /\ UNCHANGED <<heap, pkg, history,
                   options, op, pc, pass, todo, exports, first, ret,
                   calls>>

\* one iteration of extractCallables' loop over filteredKeys
ExtractKey ==
    /\ pc = "run"
    /\ op = "getExports"
    /\ stack /= <<>>
    /\ Top.phase = "keys"
    /\ Top.keys /= <<>>
    /\ LET obj == Top.obj
           key == Head(Top.keys)
           r == Read(obj.id, key)
           value == r.v
           newPath == JoinPath(Top.path, key)
           rest == ReplaceTop([Top EXCEPT !.keys = Tail(Top.keys)])
       IN  IF ~r.ok
           THEN /\ stack' = rest
                /\ UNCHANGED <<functions, classes, calls>>
           ELSE /\ classes' =
                       IF TypeOf(value) = "function" /\ isClass(value)
                       THEN Assign(classes, newPath, value.id)
                       ELSE classes
                /\ functions' =
                       IF TypeOf(value) = "function" /\ ~isClass(value)
                       THEN Assign(functions, newPath, value.id)
                       ELSE functions
                /\ IF ShouldRecurse(value, Top.depth)
                   THEN /\ stack' = Append(rest, Frame(value, newPath, Top.depth + 1))
                        /\ calls' = calls + 1
                   ELSE /\ stack' = rest
                        /\ calls' = calls
    /\ UNCHANGED <<heap, pkg, history,
                   options, op, pc, pass, todo, exports, visited,
                   first, ret, entered>>

\* extractCallables after its loop: the prototype block, and the return
ExtractLeave ==
    /\ pc = "run"
    /\ op = "getExports"
    /\ stack /= <<>>
    /\ Top.phase = "keys"
    /\ Top.keys = <<>>
    /\ LET obj == Top.obj
           className == ClassName(obj, Top.path)
           methods == PrototypeMethods(obj)
           proto == Read(obj.id, "prototype").v.id
       IN  functions' =
               IF HasPrototypeBlock(obj)
               THEN AssignAll(functions,
                        [i \in 1..Len(methods) |->
                            MethodEntry(className, proto, methods[i])])
               ELSE functions
    /\ stack' = Pop
    /\ UNCHANGED <<heap, pkg, history,
                   options, op, pc, pass, todo, exports, visited,
                   classes, first, ret, calls, entered>>

\* one iteration of the loop over the named exports beside default
GetNamedExport ==
    /\ pc = "run"
    /\ op = "getExports"
    /\ stack = <<>>
    /\ todo /= <<>>
    /\ LET key == Head(todo)
           r == Read(pkg.id, key)
       IN  IF ~r.ok
           THEN UNCHANGED <<stack, calls>>
           ELSE /\ stack' = <<Frame(r.v, key, 1)>>
                /\ calls' = calls + 1
    /\ todo' = Tail(todo)
    /\ UNCHANGED <<heap, pkg, history, options, op, pc, pass, exports, visited,
                   functions, classes, first, ret, entered>>

\* allFinalExports: the functions, then the classes if includeClasses
GetReturn ==
    /\ pc = "run"
    /\ op = "getExports"
    /\ stack = <<>>
    /\ todo = <<>>
    /\ ret' = [NoResult EXCEPT
                  !.map = AssignAll(AssignAll(<<>>, functions),
                                    IF includeClasses THEN classes ELSE <<>>)]
    /\ pc' = "done"
    /\ UNCHANGED <<heap, pkg, history,
                   options, op, pass, stack, todo, exports, visited,
                   functions, classes, first, calls, entered>>

-----------------------------------------------------------------------------
(* The Subjects: object graphs a caller can build *)

\* {}, or an instance: typeof "object", constructor Object
PlainObject(props) ==
    [type |-> "object", array |-> FALSE, regexp |-> FALSE,
     intrinsic |-> FALSE, ctor |-> "Object", valueOfOwn |-> FALSE,
     valueOfType |-> "object", src |-> "", fname |-> "", props |-> props]

\* a function object: src is what its toString() shows ("function", "class",
\* "native", or "throws"); its own length and name come first
FunctionObject(name, src, props) ==
    [type |-> "function", array |-> FALSE, regexp |-> FALSE,
     intrinsic |-> FALSE, ctor |-> "Function", valueOfOwn |-> FALSE,
     valueOfType |-> "function", src |-> src, fname |-> name,
     props |-> <<Data("length", FALSE, Prim("number", FALSE)),
                 Data("name", FALSE, Prim("string", name /= ""))>> \o props]

\* /re/: an instance of RegExp
RegExpObject(props) ==
    [PlainObject(<<Data("lastIndex", FALSE, Prim("number", FALSE))>> \o props)
        EXCEPT !.regexp = TRUE, !.ctor = "RegExp"]

\* [..]: an array
ArrayObject(elems) ==
    [PlainObject(elems \o <<Data("length", FALSE, Num)>>)
        EXCEPT !.array = TRUE, !.ctor = "Array"]

\* Object.assign(new String('a'), props): a boxed string
BoxedString(props) ==
    [PlainObject(<<Data("0", TRUE, Str), Data("length", FALSE, Num)>>
                 \o props)
        EXCEPT !.ctor = "String", !.valueOfType = "string"]

\* Array.prototype: one of the intrinsic prototypes isBuiltinObject lists
ArrayPrototype ==
    [PlainObject(<<Data("length", FALSE, Prim("number", FALSE)),
                   Data("map", FALSE, Ref("NAT"))>>)
        EXCEPT !.array = TRUE, !.ctor = "Array", !.intrinsic = TRUE]

\* the objects every Subject may refer to:
\*   F    function F() {}              (with its prototype FP)
\*   G    a method g() {}              (no prototype)
\*   K    class K { m() {} static s() {} }  (prototype KP, methods Km, Ks)
\*   C    function C() {}; C.prototype.m = G; C.s = G   (prototype CP)
\*   N    { deep: G, b: F }
\*   D    { a: G, n: N }
\*   Y    { deep: G, up: <the root>, me: Y }
\*   H    a method h() {} with H.up = <the root>
\*   P    Object.create(null, { m: { value: G } })   (m is not enumerable)
\*   E    {}
\*   Q    class Q { static _q() {} static m() {} static t = ''
\*                  m() {} _pm() {} get acc() { return g } }  (prototype QP)
\*   DP   { a: G } with a non-enumerable h: G
\*   RX   /re/
\*   RXF  /re/ with RXF.x = G
\*   NAT  a native function, such as Math.max
\*   ARR  [1]
\*   W    function W() {}; W.prototype.Inner = K    (prototype WP)
\*   BOX  new String('a')
\*   AP   Array.prototype, with its map
\*   NATX a bound function, which prints as native code, with NATX.x = G
\*   T    class T { b() {} a() {} static s() {} static m() {} } (prototype TP)
\*   ERR  Object.assign(new Error(), { x: g })
\*   CBOX Object.assign(new String('a'), { valueOf() { return 'a' }, x: g })
Library ==
    [F |-> FunctionObject("F", "function",
               <<Data("prototype", FALSE, Ref("FP"))>>),
     FP |-> PlainObject(<<Data("constructor", FALSE, Ref("F"))>>),
     G |-> FunctionObject("g", "function", <<>>),
     K |-> FunctionObject("K", "class",
               <<Data("prototype", FALSE, Ref("KP")),
                 Data("s", FALSE, Ref("Ks"))>>),
     KP |-> PlainObject(<<Data("constructor", FALSE, Ref("K")),
                          Data("m", FALSE, Ref("Km"))>>),
     Km |-> FunctionObject("m", "function", <<>>),
     Ks |-> FunctionObject("s", "function", <<>>),
     C |-> FunctionObject("C", "function",
               <<Data("prototype", FALSE, Ref("CP")),
                 Data("s", TRUE, Ref("G"))>>),
     CP |-> PlainObject(<<Data("constructor", FALSE, Ref("C")),
                          Data("m", TRUE, Ref("G"))>>),
     N |-> PlainObject(<<Data("deep", TRUE, Ref("G")),
                         Data("b", TRUE, Ref("F"))>>),
     D |-> PlainObject(<<Data("a", TRUE, Ref("G")),
                         Data("n", TRUE, Ref("N"))>>),
     Y |-> PlainObject(<<Data("deep", TRUE, Ref("G")),
                         Data("up", TRUE, Ref("root")),
                         Data("me", TRUE, Ref("Y"))>>),
     H |-> FunctionObject("h", "function", <<Data("up", TRUE, Ref("root"))>>),
     P |-> [PlainObject(<<Data("m", FALSE, Ref("G"))>>) EXCEPT !.ctor = ""],
     E |-> PlainObject(<<>>),
     Q |-> FunctionObject("Q", "class",
               <<Data("prototype", FALSE, Ref("QP")),
                 Data("_q", FALSE, Ref("G")),
                 Data("m", FALSE, Ref("Ks")),
                 Data("t", TRUE, Str)>>),
     QP |-> PlainObject(<<Data("constructor", FALSE, Ref("Q")),
                          Data("m", FALSE, Ref("Km")),
                          Data("_pm", FALSE, Ref("G")),
                          Data("v", TRUE, Str),
                          Accessor("acc", FALSE, TRUE, FALSE, FALSE, Ref("G"))>>),
     DP |-> PlainObject(<<Data("a", TRUE, Ref("G")),
                          Data("h", FALSE, Ref("G"))>>),
     RX |-> RegExpObject(<<>>),
     RXF |-> RegExpObject(<<Data("x", TRUE, Ref("G"))>>),
     NAT |-> FunctionObject("max", "native", <<>>),
     ARR |-> ArrayObject(<<Data("0", TRUE, Num)>>),
     W |-> FunctionObject("W", "function",
               <<Data("prototype", FALSE, Ref("WP"))>>),
     WP |-> PlainObject(<<Data("constructor", FALSE, Ref("W")),
                          Data("Inner", TRUE, Ref("K"))>>),
     BOX |-> BoxedString(<<>>),
     AP |-> ArrayPrototype,
     NATX |-> FunctionObject("bound", "native",
                  <<Data("x", TRUE, Ref("G"))>>),
     T |-> FunctionObject("T", "class",
               <<Data("prototype", FALSE, Ref("TP")),
                 Data("s", FALSE, Ref("Ks")),
                 Data("m", FALSE, Ref("Km"))>>),
     TP |-> PlainObject(<<Data("constructor", FALSE, Ref("T")),
                          Data("b", FALSE, Ref("G")),
                          Data("a", FALSE, Ref("Km"))>>),
     ERR |-> [PlainObject(<<Data("stack", FALSE, Str),
                            Data("x", TRUE, Ref("G"))>>)
                 EXCEPT !.ctor = "Error"],
     CBOX |-> [BoxedString(<<Data("valueOf", TRUE, Ref("Km")),
                             Data("x", TRUE, Ref("G"))>>)
                  EXCEPT !.valueOfOwn = TRUE]]

\* the object ids an object's properties refer to
RefsOf(object) ==
    {object.props[i].value.id :
        i \in {j \in 1..Len(object.props) : object.props[j].value.t = "ref"}}

RECURSIVE Reach(_, _)
Reach(h, S) ==
    LET T == S \cup UNION {RefsOf(h[o]) : o \in S}
    IN  IF T = S THEN S ELSE Reach(h, T)

\* the Subject whose root object is `root`: the root and what it reaches
\* among the objects of lib
SubjectIn(lib, root) ==
    LET h == [o \in DOMAIN lib \cup {"root"} |->
                 IF o = "root" THEN root ELSE lib[o]]
    IN  [heap |-> [o \in Reach(h, {"root"}) |-> h[o]], pkg |-> Ref("root")]

SubjectOf(root) == SubjectIn(Library, root)

\* a Subject that is no object: null, undefined or a primitive
ValueSubject(v) == [heap |-> <<>>, pkg |-> v]

\* what a module object holds under default and __esModule
ModuleShapes ==
    {dflt \o esm :
        dflt \in {<<>>,
                  <<Data("default", TRUE, Ref("D"))>>,
                  <<Data("default", TRUE, Ref("G"))>>,
                  <<Data("default", TRUE, Null)>>,
                  <<Accessor("default", TRUE, TRUE, FALSE, TRUE, Undefined)>>},
        esm \in {<<>>, <<Data("__esModule", TRUE, True)>>}}

\* the other properties a root may hold
ExtraMenu ==
    <<Data("b", TRUE, Ref("F")),
      Data("a", TRUE, Ref("F")),
      Data("self", TRUE, Ref("root")),
      Data("n", TRUE, Ref("N")),
      Data("_p", TRUE, Ref("G")),
      Data("s", TRUE, Str),
      Data("K", TRUE, Ref("K")),
      Data("C", TRUE, Ref("C")),
      Data("rx", TRUE, Ref("RX")),
      Data("nat", TRUE, Ref("NAT")),
      Data("arr", TRUE, Ref("ARR")),
      Data("h", FALSE, Ref("G")),
      Data("x", TRUE, Ref("G")),
      Data("z", TRUE, Null),
      Accessor("acc", TRUE, TRUE, FALSE, TRUE, Undefined),
      Accessor("acc", TRUE, TRUE, FALSE, FALSE, Ref("G")),
      Accessor("acc", TRUE, FALSE, TRUE, FALSE, Undefined)>>

\* the selections of at most n properties of the menu, in the menu's order
RECURSIVE Selections(_, _)
Selections(menu, n) ==
    IF menu = <<>> \/ n = 0 THEN {<<>>}
    ELSE Selections(Tail(menu), n)
         \cup {<<Head(menu)>> \o rest : rest \in
                 {r \in Selections(Tail(menu), n - 1) :
                     \A i \in 1..Len(r) : r[i].key /= Head(menu).key}}

\* the module objects: { default?, __esModule?, ...extras }
ObjectSubjects ==
    {SubjectOf(PlainObject(shape \o extra)) :
        shape \in ModuleShapes, extra \in Selections(ExtraMenu, MaxExtra)}

\* the Subjects that are a function: function pkg() {} with properties, and
\* a native function with properties
FunctionSubjects ==
    {SubjectOf(FunctionObject("pkg", src,
                   <<Data("prototype", FALSE, Ref("FP"))>> \o shape \o extra)) :
        src \in {"function", "native"},
        shape \in {<<>>, <<Data("default", TRUE, Ref("D"))>>},
        extra \in Selections(ExtraMenu, MaxExtra)}

\* null, undefined, "", "abc", 0, 42, false, true
ValueSubjects ==
    {ValueSubject(v) :
        v \in {Null, Undefined} \cup
              {Prim(ty, tr) : ty \in {"string", "number", "boolean"},
                              tr \in BOOLEAN}}

-----------------------------------------------------------------------------
(* The Subjects of the cycle, depth, default-export and class families *)

\* the properties a cyclic Subject's root may hold
CycleMenu ==
    <<Data("self", TRUE, Ref("root")),
      Data("y", TRUE, Ref("Y")),
      Data("h", TRUE, Ref("H")),
      Data("x", TRUE, Ref("G")),
      Data("K", TRUE, Ref("K")),
      Data("_p", TRUE, Ref("G"))>>

\* objects and functions that reach themselves: obj.self = obj,
\* obj.default = obj, obj.y.up = obj, obj.h.up = obj
CycleSubjects ==
    {SubjectOf(PlainObject(shape \o extra)) :
        shape \in {<<>>,
                   <<Data("default", TRUE, Ref("D")),
                     Data("__esModule", TRUE, True)>>,
                   <<Data("default", TRUE, Ref("Y"))>>,
                   <<Data("default", TRUE, Ref("root"))>>},
        extra \in Selections(CycleMenu, MaxCycleExtra)}
    \cup
    {SubjectOf(FunctionObject("pkg", "function",
                   <<Data("prototype", FALSE, Ref("FP"))>> \o extra)) :
        extra \in Selections(CycleMenu, MaxCycleExtra)}

\* the objects of a chain: N0.l = N1, ... N(d-1).l = Nd, Nd.f = G
ChainId(i) == "N" \o ToString(i)
ChainObjects(d) ==
    [o \in {ChainId(i) : i \in 0..d} |->
        IF o = ChainId(d) THEN PlainObject(<<Data("f", TRUE, Ref("G"))>>)
        ELSE LET i == CHOOSE j \in 0..(d - 1) : ChainId(j) = o
             IN  PlainObject(<<Data("l", TRUE, Ref(ChainId(i + 1)))>>)]

\* a function inside d nested plain objects: the chain itself, and the chain
\* as the default export of a module object
ChainSubjects ==
    {[heap |-> ChainObjects(d) @@ [o \in {"G"} |-> Library[o]],
      pkg |-> Ref(ChainId(0))] : d \in 0..ChainLen}
    \cup
    {SubjectIn(Library @@ ChainObjects(d),
               PlainObject(<<Data("default", TRUE, Ref(ChainId(0)))>> \o rest)) :
        d \in 0..ChainLen,
        rest \in {<<>>,
                  <<Data("__esModule", TRUE, True)>>,
                  <<Data("__esModule", TRUE, True), Data("b", TRUE, Ref("F"))>>}}

\* the named export a default-only wrapper may hold beside default
NamedMenu ==
    <<Data("b", TRUE, Ref("F")),
      Data("n", TRUE, Ref("N")),
      Data("_p", TRUE, Ref("G")),
      Data("s", TRUE, Str),
      Data("h", FALSE, Ref("G"))>>

\* module objects around a default export: { default, __esModule?, named? }
DefaultSubjects ==
    {SubjectOf(PlainObject(<<Data("default", TRUE, Ref(d))>> \o esm \o named)) :
        d \in {"D", "N", "DP", "P", "E", "Y", "RXF", "ARR", "K", "G"},
        esm \in {<<>>, <<Data("__esModule", TRUE, True)>>},
        named \in Selections(NamedMenu, 1)}

\* Subjects holding a class or a constructor function: as the root, as a
\* property, as a property of a nested object, or beside a default export
ClassSubjects ==
    {SubjectOf(PlainObject(<<Data(c, TRUE, Ref(c))>>)) : c \in {"K", "C", "Q"}}
    \cup
    {SubjectOf(PlainObject(<<Data("default", TRUE, Ref("D")),
                             Data("__esModule", TRUE, True),
                             Data(c, TRUE, Ref(c))>>)) : c \in {"K", "C", "Q"}}
    \cup
    {[heap |-> [o \in Reach(Library, {c}) |-> Library[o]], pkg |-> Ref(c)] :
        c \in {"K", "C", "Q"}}

\* objects whose properties share values, as { duplicate: f, nested:
\* { duplicate: f } } and { a: shared, b: shared }: the function G is held by
\* the root, by N and by Y, and N is held under three keys; acc is a getter
\* that throws, a getter and setter of G, or a setter. Alone, and as the
\* named export of a default-only wrapper
AliasSubjects ==
    LET menu == <<Data("x", TRUE, Ref("G")),
                  Data("deep", TRUE, Ref("G")),
                  Data("a", TRUE, Ref("N")),
                  Data("b", TRUE, Ref("N")),
                  Data("_p", TRUE, Ref("N")),
                  Data("y", TRUE, Ref("Y")),
                  Data("self", TRUE, Ref("root")),
                  Data("rx", TRUE, Ref("RXF")),
                  Data("h", FALSE, Ref("H")),
                  Accessor("acc", TRUE, TRUE, FALSE, TRUE, Undefined),
                  Accessor("acc", TRUE, TRUE, TRUE, FALSE, Ref("G")),
                  Accessor("acc", TRUE, FALSE, TRUE, FALSE, Undefined)>>
    IN  {SubjectOf(PlainObject(props)) :
            props \in Selections(menu, MaxPathLen)}
        \cup
        {SubjectOf(PlainObject(<<Data("default", TRUE, Ref("D")),
                                 Data("__esModule", TRUE, True)>> \o props)) :
            props \in Selections(menu, 1)}

\* the Subjects a caller scans more than once: module objects holding a
\* function, a class, a constructor function, a getter, a nested object or a
\* reference to themselves; a class; a default export; null
RepeatSubjects ==
    {SubjectOf(PlainObject(props)) :
        props \in {<<Data("K", TRUE, Ref("K"))>>,
                   <<Data("C", TRUE, Ref("C")), Data("s", TRUE, Str)>>,
                   <<Data("Q", TRUE, Ref("Q"))>>,
                   <<Data("W", TRUE, Ref("W"))>>,
                   <<Data("x", TRUE, Ref("G")), Data("n", TRUE, Ref("N"))>>,
                   <<Data("self", TRUE, Ref("root")),
                     Data("x", TRUE, Ref("G"))>>,
                   <<Accessor("acc", TRUE, TRUE, FALSE, TRUE, Undefined),
                     Data("b", TRUE, Ref("F"))>>,
                   <<Data("default", TRUE, Ref("K"))>>,
                   <<Data("default", TRUE, Ref("D")),
                     Data("__esModule", TRUE, True),
                     Data("K", TRUE, Ref("K"))>>}}
    \cup
    {[heap |-> [o \in Reach(Library, {"K"}) |-> Library[o]], pkg |-> Ref("K")],
     ValueSubject(Null)}

\* module objects with opaque values among their properties, under their
\* default export or beside it, an Error instance and a boxed string with
\* its own valueOf among them, and opaque roots: a RegExp, a native function
\* and a boxed string with properties of their own, Array.prototype
OpaqueSubjects ==
    LET menu == <<Data("rx", TRUE, Ref("RXF")),
                  Data("nat", TRUE, Ref("NATX")),
                  Data("arr", TRUE, Ref("AP")),
                  Data("b", TRUE, Ref("BOX")),
                  Data("e", TRUE, Ref("ERR")),
                  Data("c", TRUE, Ref("CBOX")),
                  Data("x", TRUE, Ref("G")),
                  Data("n", TRUE, Ref("N"))>>
        wrapped == {<<>>,
                    <<Data("default", TRUE, Ref("D"))>>,
                    <<Data("default", TRUE, Ref("D")),
                      Data("__esModule", TRUE, True)>>,
                    <<Data("default", TRUE, Ref("G"))>>}
        opaque == {<<Data("default", TRUE, Ref("RXF"))>>,
                   <<Data("default", TRUE, Ref("NATX")),
                     Data("__esModule", TRUE, True)>>,
                   <<Data("default", TRUE, Ref("BOX"))>>,
                   <<Data("default", TRUE, Ref("AP"))>>}
    IN  {SubjectOf(PlainObject(shape \o extra)) :
            shape \in wrapped \cup opaque, extra \in Selections(menu, 2)}
        \cup
        {SubjectOf(root) :
            root \in {RegExpObject(shape \o extra) :
                         shape \in wrapped, extra \in Selections(menu, 1)}
                     \cup
                     {FunctionObject("bound", "native", shape \o extra) :
                         shape \in wrapped, extra \in Selections(menu, 1)}
                     \cup
                     {BoxedString(shape \o extra) :
                         shape \in wrapped, extra \in Selections(menu, 1)}
                     \cup {ArrayPrototype}}

\* Subjects whose output can show the order of their keys: a class with two
\* prototype methods and two static methods, module objects with several
\* functions, a default export with a named export beside it
OrderSubjects ==
    {SubjectOf(PlainObject(props)) :
        props \in {<<Data("T", TRUE, Ref("T"))>>,
                   <<Data("x", TRUE, Ref("G")), Data("b", TRUE, Ref("F")),
                     Data("a", TRUE, Ref("F"))>>,
                   <<Data("default", TRUE, Ref("D")),
                     Data("__esModule", TRUE, True),
                     Data("b", TRUE, Ref("F"))>>}}

-----------------------------------------------------------------------------
(* The options a caller passes *)

\* {}: every option left to its default
NoOptions ==
    [given |-> {}, maxDepth |-> 0, excludedKeys |-> {},
     includePrivate |-> FALSE, includeNonFunctions |-> FALSE,
     followPrototypes |-> FALSE, includeClasses |-> FALSE]

DepthOpts == (-1..MaxDepthOpt) \cup {Infinity}

\* { maxDepth, includeNonFunctions, followPrototypes, includeClasses }
TraversalOptions ==
    {[NoOptions EXCEPT
        !.given = {"maxDepth", "includeNonFunctions", "followPrototypes",
                   "includeClasses"},
        !.maxDepth = md, !.includeNonFunctions = nf,
        !.followPrototypes = fp, !.includeClasses = ic] :
        md \in DepthOpts, nf \in BOOLEAN, fp \in BOOLEAN, ic \in BOOLEAN}

\* { excludedKeys, includePrivate, followPrototypes }
KeyOptions ==
    {[NoOptions EXCEPT
        !.given = {"excludedKeys", "includePrivate", "followPrototypes"},
        !.excludedKeys = ex, !.includePrivate = ip,
        !.followPrototypes = fp] :
        ex \in {{}, {"x"}, {"prototype", "name", "s"}},
        ip \in BOOLEAN, fp \in BOOLEAN}

Options == {NoOptions} \cup TraversalOptions \cup KeyOptions

\* { excludedKeys, includeNonFunctions }
ExcludeOptions ==
    {NoOptions} \cup
    {[NoOptions EXCEPT
        !.given = {"excludedKeys", "includeNonFunctions"},
        !.excludedKeys = ex, !.includeNonFunctions = nf] :
        ex \in {{}, {"x"}, {"s"}}, nf \in BOOLEAN}

\* { maxDepth, includeClasses }
CycleOptions ==
    {NoOptions} \cup
    {[NoOptions EXCEPT
        !.given = {"maxDepth", "includeClasses"},
        !.maxDepth = md, !.includeClasses = ic] :
        md \in DepthOpts, ic \in BOOLEAN}

\* { maxDepth, includeNonFunctions }
ChainOptions ==
    {NoOptions} \cup
    {[NoOptions EXCEPT
        !.given = {"maxDepth", "includeNonFunctions"},
        !.maxDepth = md, !.includeNonFunctions = nf] :
        md \in (-1..(ChainLen + 1)) \cup {Infinity}, nf \in BOOLEAN}

\* { maxDepth, includePrivate }
DefaultOptions ==
    {NoOptions} \cup
    {[NoOptions EXCEPT
        !.given = {"maxDepth", "includePrivate"},
        !.maxDepth = md, !.includePrivate = ip] :
        md \in DepthOpts, ip \in BOOLEAN}

\* { maxDepth, followPrototypes, includePrivate }, and
\* { excludedKeys: [], followPrototypes }
ClassOptions ==
    {NoOptions} \cup
    {[NoOptions EXCEPT
        !.given = {"maxDepth", "followPrototypes", "includePrivate"},
        !.maxDepth = md, !.followPrototypes = fp, !.includePrivate = ip] :
        md \in 0..MaxDepthOpt, fp \in BOOLEAN, ip \in BOOLEAN}
    \cup
    {[NoOptions EXCEPT
        !.given = {"excludedKeys", "followPrototypes"},
        !.followPrototypes = fp] : fp \in BOOLEAN}

\* the options of repeated calls: {}, { includeNonFunctions: true },
\* { followPrototypes: false }, both, and { includeClasses: false }
RepeatOptions ==
    {NoOptions,
     [NoOptions EXCEPT !.given = {"includeNonFunctions"},
                       !.includeNonFunctions = TRUE],
     [NoOptions EXCEPT !.given = {"followPrototypes"}],
     [NoOptions EXCEPT !.given = {"followPrototypes", "includeNonFunctions"},
                       !.includeNonFunctions = TRUE],
     [NoOptions EXCEPT !.given = {"includeClasses"}]}

\* what each operation reads of its options; an option it does not read is
\* passed at one value only
ForList(opts) ==
    {o \in opts : "includeClasses" \in o.given => o.includeClasses}
ForGet(opts) ==
    {o \in opts : "includeNonFunctions" \in o.given => ~o.includeNonFunctions}
ForAnalyze(opts) == ForList(opts) \cap ForGet(opts)

-----------------------------------------------------------------------------
(* Specifications *)

InitWith(subjects) ==
    /\ \E s \in subjects : heap = s.heap /\ pkg = s.pkg
    /\ options = NoOptions
    /\ op = ""
    /\ pc = "idle"
    /\ pass = 0
    /\ stack = <<>>
    /\ todo = <<>>
    /\ exports = <<>>
    /\ visited = {}
    /\ functions = <<>>
    /\ classes = <<>>
    /\ first = <<>>
    /\ ret = NoResult
    /\ calls = 0
    /\ entered = <<>>
    /\ history = <<>>

\* the steps of a running call
Steps ==
    \/ ListBegin
    \/ ExploreEnter
    \/ ExploreKey
    \/ ExploreLeave
    \/ ListNamedExport
    \/ ListReturn
    \/ AnalyzeSecond
    \/ AnalyzeReturn
    \/ GetBegin
    \/ ExtractEnter
    \/ ExtractKey
    \/ ExtractLeave
    \/ GetNamedExport
    \/ GetReturn

\* the caller keeps what the call returned and is ready to call again on the
\* same Subject
CallAgain ==
    /\ pc = "done"
    /\ Len(history) < MaxHistory
    /\ history' = Append(history, [op |-> op, options |-> options, ret |-> ret])
    /\ pc' = "idle"
    /\ UNCHANGED <<heap, pkg, options, op, pass, stack, todo, exports, visited,
                   functions, classes, first, ret, calls, entered>>

\* between two calls the caller builds the Subject anew with two
\* neighbouring properties of one object created in the other order: the
\* same keys and values everywhere, another property-insertion order. (The
\* properties the language creates itself keep their places.)
Reorder ==
    /\ pc = "idle"
    /\ Len(history) = 1
    /\ \E o \in DOMAIN heap :
          \E i \in 1..(Len(heap[o].props) - 1) :
              LET p == heap[o].props
                  fixed == {"length", "name", "prototype", "constructor",
                            "lastIndex", "0"}
              IN  /\ p[i].key \notin fixed
                  /\ p[i + 1].key \notin fixed
                  /\ heap' = [heap EXCEPT ![o].props =
                                 [p EXCEPT ![i] = p[i + 1], ![i + 1] = p[i]]]
    /\ UNCHANGED <<pkg, history, options, op, pc, pass, stack, todo, exports,
                   visited, functions, classes, first, ret, calls, entered>>

\* the caller makes one call, which runs to its end
NextWith(opts) ==
    \/ \E o \in ForList(opts) : ListExportNames(o)
    \/ \E o \in ForGet(opts) : GetExports(o)
    \/ \E o \in ForAnalyze(opts) : AnalyzeExports(o)
    \/ Steps

\* any Subject, any options
Init == InitWith(ObjectSubjects \cup FunctionSubjects \cup ValueSubjects)
Next == NextWith(Options)
Spec == Init /\ [][Next]_vars

\* Subjects with reference cycles
InitCycle == InitWith(CycleSubjects)
NextCycle == NextWith(CycleOptions)
SpecCycle == InitCycle /\ [][NextCycle]_vars

\* a function inside nested plain objects
InitDepth == InitWith(ChainSubjects)
NextDepth == NextWith(ChainOptions)
SpecDepth == InitDepth /\ [][NextDepth]_vars

\* module objects around a default export
InitDefault == InitWith(DefaultSubjects)
NextDefault == NextWith(DefaultOptions)
SpecDefault == InitDefault /\ [][NextDefault]_vars

\* classes and constructor functions
InitProto == InitWith(ClassSubjects)
NextProto == NextWith(ClassOptions)
SpecProto == InitProto /\ [][NextProto]_vars

\* classes and constructor functions, with a list of excluded keys
InitKeys == InitWith(ClassSubjects)
NextKeys == NextWith(ExcludeOptions)
SpecKeys == InitKeys /\ [][NextKeys]_vars

\* Subjects whose properties share values
InitAlias == InitWith(AliasSubjects)
NextAlias == NextWith(DefaultOptions)
SpecAlias == InitAlias /\ [][NextAlias]_vars

\* Subjects that hold, or are, values isBuiltinObject stops at
InitOpaque == InitWith(OpaqueSubjects)
SpecOpaque == InitOpaque /\ [][NextDepth]_vars

\* a caller making up to MaxHistory + 1 calls on one Subject
InitRepeat == InitWith(RepeatSubjects)
NextRepeat ==
    \/ \E o \in ForList(RepeatOptions) : ListExportNames(o)
    \/ \E o \in ForGet(RepeatOptions) : GetExports(o)
    \/ \E o \in ForList(RepeatOptions) : AnalyzeExports(o)
    \/ Steps
    \/ CallAgain
SpecRepeat == InitRepeat /\ [][NextRepeat]_vars

\* a caller making calls on Subjects that differ in insertion order only
InitOrder == InitWith(OrderSubjects)
NextOrder ==
    \/ \E o \in ForList(RepeatOptions) : ListExportNames(o)
    \/ GetExports(NoOptions)
    \/ AnalyzeExports(NoOptions)
    \/ Steps
    \/ CallAgain
    \/ Reorder
SpecOrder == InitOrder /\ [][NextOrder]_vars

\* module objects with a default export and up to MaxNamed named exports
InitWide ==
    InitWith({SubjectOf(PlainObject(<<Data("default", TRUE, Ref(d))>>
                                    \o esm \o named)) :
                 d \in {"D", "G"},
                 esm \in {<<>>, <<Data("__esModule", TRUE, True)>>},
                 named \in Selections(<<Data("b", TRUE, Ref("F")),
                                        Data("x", TRUE, Ref("G")),
                                        Data("_p", TRUE, Ref("G")),
                                        Data("s", TRUE, Str),
                                        Data("K", TRUE, Ref("K"))>>,
                                      MaxNamed)})
SpecWide == InitWide /\ [][NextDefault]_vars

\* a caller making up to MaxHistory + 1 calls on one module object of plain
\* objects and plain functions around a default export, with no options or
\* with { maxDepth: 0 }
InitPair ==
    InitWith({SubjectOf(PlainObject(<<Data("default", TRUE, Ref(d))>>
                                    \o esm \o named)) :
                 d \in {"D", "N", "E", "G"},
                 esm \in {<<>>, <<Data("__esModule", TRUE, True)>>},
                 named \in {<<>>, <<Data("b", TRUE, Ref("F"))>>,
                            <<Data("_p", TRUE, Ref("G"))>>}})
NextPair ==
    \/ NextWith({o \in DefaultOptions :
                    /\ ~o.includePrivate
                    /\ "maxDepth" \in o.given => o.maxDepth = 0})
    \/ CallAgain
SpecPair == InitPair /\ [][NextPair]_vars

-----------------------------------------------------------------------------
(* Properties: what the results are checked against *)

\* the call has returned to its caller
Returned == pc = "done"

\* the strings the Name Lister returned
Names == Range(ret.names)

\* the own keys of the Subject that are not excluded and hold a callable
DirectCallables ==
    IF ~IsRef(pkg) THEN {}
    ELSE {k \in Range(OwnNames(pkg.id)) :
            /\ ~shouldExcludeKey(k, includePrivate, excludedKeys)
            /\ Read(pkg.id, k).ok
            /\ TypeOf(Read(pkg.id, k).v) = "function"}

\* the result reports the Subject's property k: the Name Lister as the
\* string k, the Callable Extractor as the entry k -> the property's value
Reported(k) ==
    IF op = "getExports"
    THEN HasKey(ret.map, k) /\ Lookup(ret.map, k) = Read(pkg.id, k).v.id
    ELSE k \in Names

\* the Subject is a default-only wrapper: an object with a default export
\* whose enumerable keys are default, __esModule and at most one other
IsWrapper ==
    /\ IsRef(pkg)
    /\ TypeOf(pkg) = "object"
    /\ Read(pkg.id, "default").ok
    /\ Read(pkg.id, "default").v.t /= "undefined"
    /\ LET keys == EnumKeys(pkg.id)
       IN  \/ keys = <<"default">>
           \/ /\ Len(keys) <= 3
              /\ {"default", "__esModule"} \subseteq Range(keys)

\* the call walks the default export in place of the Subject: the Callable
\* Extractor for every wrapper, the Name Lister for a wrapper whose default
\* is an object with an enumerable key
Unwraps ==
    /\ IsWrapper
    /\ \/ op = "getExports"
       \/ LET def == Read(pkg.id, "default").v
          IN  IsRef(def) /\ TypeOf(def) = "object" /\ EnumKeys(def.id) /= <<>>

RECURSIVE SumProps(_)
SumProps(S) ==
    IF S = {} THEN 0
    ELSE LET o == CHOOSE x \in S : TRUE
         IN  Len(heap[o].props) + SumProps(S \ {o})

\* the explore / extractCallables calls a run can make: one for the root, one
\* for a named export, and one per property of each object, every object
\* being entered at most once
CallBound == 2 + SumProps(DOMAIN heap)

-----------------------------------------------------------------------------
(* C1 *)

\* the Subject's direct callables are in the result when the walk starts at
\* the Subject itself, the Subject is not opaque and maxDepth >= 0; a class
\* is in the Callable Extractor's result when includeClasses is on
DirectReported ==
    /\ Returned
    /\ op \in {"listExportNames", "getExports"}
    /\ IsRef(pkg)
    /\ ~isBuiltinObject(pkg)
    /\ maxDepth >= 0
    /\ ~Unwraps
    => \A k \in DirectCallables :
          \/ Reported(k)
          \/ op = "getExports" /\ isClass(Read(pkg.id, k).v) /\ ~includeClasses

-----------------------------------------------------------------------------
(* C2 *)

\* the sequence the last listExportNames call returned: the call itself, or
\* the one analyzeExports made last
LastListed ==
    IF op = "analyzeExports" /\ pc = "done" THEN ret.allExports ELSE ret.names

\* where x occurs first in s
FirstIndex(s, x) ==
    CHOOSE i \in 1..Len(s) : s[i] = x /\ \A j \in 1..(i - 1) : s[j] /= x

\* C2: on every return path the sequence the Name Lister returns holds no
\* string twice, holds exactly the strings of the raw discovery sequence
\* (exports), and orders them by their first occurrence in it.
C2_UniqueInDiscoveryOrder ==
    /\ op \in {"listExportNames", "analyzeExports"}
    /\ pc \in {"done", "between"}
    => LET r == LastListed
       IN  /\ \A i, j \in 1..Len(r) : i /= j => r[i] /= r[j]
           /\ Range(r) = Range(exports)
           /\ \A i, j \in 1..Len(r) :
                 i < j => FirstIndex(exports, r[i]) < FirstIndex(exports, r[j])

\* a default-only wrapper was unwrapped, its raw discovery sequence held a
\* string twice, and at least two strings were returned
C2_Witness ==
    /\ Returned
    /\ op = "listExportNames"
    /\ Unwraps
    /\ Len(exports) > Len(ret.names)
    /\ Len(ret.names) >= 2

-----------------------------------------------------------------------------
(* C3 *)

\* C3: for a null or undefined Subject no call throws, none visits a node or
\* calls explore / extractCallables, and what returns is empty: the Name
\* Lister's sequence, the Callable Extractor's mapping, and the Summary
\* Analyzer's functions and allExports with both counts 0 and hasDefault,
\* isFunction and isObject false.
C3_NullishEmpty ==
    pkg.t \in {"null", "undefined"}
    => /\ pc /= "thrown"
       /\ visited = {}
       /\ entered = <<>>
       /\ calls = 0
       /\ Returned =>
             /\ ret.names = <<>>
             /\ ret.allExports = <<>>
             /\ ret.map = <<>>
             /\ ret.summary.totalFunctions = 0
             /\ ret.summary.totalExports = 0
             /\ ~ret.summary.hasDefault
             /\ ~ret.summary.isFunction
             /\ ~ret.summary.isObject

\* analyzeExports(null) has returned
C3_Witness ==
    /\ Returned
    /\ op = "analyzeExports"
    /\ pkg.t = "null"

-----------------------------------------------------------------------------
(* C4 *)

\* C4 as stated: the Name Lister never raises to its caller, whatever the
\* Subject: objects, functions, non-nullish primitives, and objects whose
\* default read throws.
C4_NeverThrows ==
    op = "listExportNames" => pc /= "thrown"

-----------------------------------------------------------------------------
(* C5 *)

\* the object the walk starts at: the default export of a module object, or
\* the Subject itself
ScanRoot ==
    IF HasOwn(pkg.id, "default") THEN Read(pkg.id, "default").v.id ELSE pkg.id

\* how many plain objects lie between the object o and the function f
RECURSIVE Nesting(_)
Nesting(o) == IF HasOwn(o, "f") THEN 0 ELSE 1 + Nesting(Read(o, "l").v.id)

\* the path of f under d nested objects: "f", "l.f", "l.l.f", ...
RECURSIVE ChainPath(_)
ChainPath(d) == IF d = 0 THEN "f" ELSE "l." \o ChainPath(d - 1)

\* C5: a function that sits inside D nested plain objects is listed by the
\* Name Lister, under its path of D + 1 keys, exactly when maxDepth >= D:
\* absent with maxDepth D - 1 (and below), present with maxDepth D (and above).
C5_DepthBoundary ==
    Returned /\ op = "listExportNames"
    => LET D == Nesting(ScanRoot)
       IN  ChainPath(D) \in Names <=> maxDepth >= D

\* the function under ChainLen nested objects is listed with maxDepth ChainLen
C5_Witness ==
    /\ Returned
    /\ op = "listExportNames"
    /\ Nesting(ScanRoot) = ChainLen
    /\ maxDepth = ChainLen
    /\ ChainPath(ChainLen) \in Names

-----------------------------------------------------------------------------
(* C6 *)

\* the non-excluded own keys of the object o that hold a callable
CallableMembers(o) ==
    {k \in Range(OwnNames(o)) :
        /\ ~shouldExcludeKey(k, includePrivate, excludedKeys)
        /\ Read(o, k).ok
        /\ TypeOf(Read(o, k).v) = "function"}

\* the Subject is a default-only wrapper whose default is an object
WrapsObject ==
    /\ IsWrapper
    /\ IsRef(Read(pkg.id, "default").v)
    /\ TypeOf(Read(pkg.id, "default").v) = "object"

BeginsWithDefaultDot(name) ==
    Len(name) >= 8 /\ SubSeq(name, 1, 8) = "default."

-----------------------------------------------------------------------------
(* C7 *)

\* function pkg() {} with one attached function: pkg.x = g
FunctionWithHelper ==
    /\ IsRef(pkg)
    /\ TypeOf(pkg) = "function"
    /\ heap[pkg.id].src = "function"
    /\ OwnNames(pkg.id) = <<"length", "name", "prototype", "x">>
    /\ TypeOf(Read(pkg.id, "x").v) = "function"

\* C7 (as the code has it): for a Subject that is itself a function, is not
\* native, and maxDepth >= 0, the Name Lister's result starts with "main" and
\* holds the key of every non-excluded callable own property of the Subject,
\* with no prefix; with the default excluded keys and non-functions left out,
\* a function with one attached function x yields exactly <<"main", "x">>.
C7_RootCallable ==
    /\ Returned
    /\ op = "listExportNames"
    /\ TypeOf(pkg) = "function"
    /\ ~isBuiltinObject(pkg)
    /\ maxDepth >= 0
    => /\ ret.names /= <<>>
       /\ ret.names[1] = "main"
       /\ DirectCallables \subseteq Names
       /\ FunctionWithHelper /\ ~Given("excludedKeys") /\ ~includeNonFunctions
          => ret.names = <<"main", "x">>

\* listExportNames of a function with one attached function x, every option
\* left to its default, returned <<"main", "x">>
C7_Witness ==
    /\ Returned
    /\ op = "listExportNames"
    /\ options = NoOptions
    /\ FunctionWithHelper
    /\ ret.names = <<"main", "x">>

\* C7 as stated: for every Subject that is itself a function the Name
\* Lister's result holds "main" and the keys of the Subject's non-excluded
\* callable own properties
C7_AsStated ==
    Returned /\ op = "listExportNames" /\ TypeOf(pkg) = "function"
    => /\ "main" \in Names
       /\ DirectCallables \subseteq Names

-----------------------------------------------------------------------------
(* C8 *)

\* the object c is a class or a constructor function: a function whose
\* prototype is an object that is not opaque
IsClassLike(c) ==
    /\ heap[c].type = "function"
    /\ HasOwn(c, "prototype")
    /\ IsRef(Read(c, "prototype").v)
    /\ ~isBuiltinObject(Read(c, "prototype").v)

\* the own static methods of c: its own data properties holding a function
StaticMethods(c) ==
    {k \in Range(OwnNames(c)) :
        ~Descriptor(c, k).acc /\ TypeOf(Descriptor(c, k).value) = "function"}

\* the non-excluded function-valued data properties of c.prototype
InstanceMethods(c) ==
    LET proto == Read(c, "prototype").v.id
    IN  {k \in Range(OwnNames(proto)) :
            /\ ~shouldExcludeKey(k, includePrivate, excludedKeys)
            /\ ~Descriptor(proto, k).acc
            /\ TypeOf(Descriptor(proto, k).value) = "function"}

\* the name the methods of c.prototype are listed under: the path c was
\* entered at, or the function's own name when it is the root
ListedClassName(e) ==
    IF e.path /= "" THEN e.path
    ELSE IF heap[e.id].fname /= "" THEN heap[e.id].fname
    ELSE "UnknownClass"

\* C8 (as the code has it): for a class or constructor function C the walk
\* enters at path P, the Name Lister lists "P.s" for every non-excluded own
\* static method s ("s" alone when C is the root); with followPrototypes on it
\* lists "P.m" for every non-excluded function-valued data property m of
\* C.prototype (under C's own name when C is the root); with followPrototypes
\* off it lists no "P.m" for an m of C.prototype that is no own key of C.
C8_PrototypeToggle ==
    Returned /\ op = "listExportNames"
    => \A i \in 1..Len(entered) :
          LET e == entered[i]
          IN  IsClassLike(e.id)
              => /\ \A k \in StaticMethods(e.id) :
                       ~shouldExcludeKey(k, includePrivate, excludedKeys)
                       => JoinPath(e.path, k) \in Names
                 /\ followPrototypes
                    => \A m \in InstanceMethods(e.id) :
                          (ListedClassName(e) \o "." \o m) \in Names
                 /\ ~followPrototypes
                    => \A m \in InstanceMethods(e.id) :
                          m \notin Range(OwnNames(e.id))
                          => (ListedClassName(e) \o "." \o m) \notin Names

\* class K { m() {} static s() {} } was entered at path "K" with
\* followPrototypes on: "K.s" and "K.m" are listed
C8_Witness ==
    /\ Returned
    /\ op = "listExportNames"
    /\ followPrototypes
    /\ [id |-> "K", path |-> "K"] \in Range(entered)
    /\ {"K.s", "K.m"} \subseteq Names

\* C8 as stated: for a class or constructor function C entered at path P the
\* Name Lister lists "P.s" for every own static method s of C
C8_AsStated ==
    Returned /\ op = "listExportNames"
    => \A i \in 1..Len(entered) :
          IsClassLike(entered[i].id) /\ entered[i].path /= ""
          => \A k \in StaticMethods(entered[i].id) :
                JoinPath(entered[i].path, k) \in Names

-----------------------------------------------------------------------------
(* C9 *)

\* the kind a value is listed with: "array" for an array, and otherwise the
\* name of its type
Kind(v) ==
    CASE v.t \in {"string", "number", "boolean"} -> v.t
      [] IsRef(v) /\ heap[v.id].array -> "array"
      [] IsRef(v) /\ ~heap[v.id].array -> heap[v.id].type

\* "<path> (<kind>)"
WithKind(path, v) == path \o " (" \o Kind(v) \o ")"

\* the non-excluded own data properties of the object o whose value is
\* neither callable, null nor undefined
PlainValueKeys(o) ==
    {k \in Range(OwnNames(o)) :
        /\ ~shouldExcludeKey(k, includePrivate, excludedKeys)
        /\ ~Descriptor(o, k).acc
        /\ Descriptor(o, k).value.t \notin {"null", "undefined"}
        /\ TypeOf(Descriptor(o, k).value) /= "function"}

\* the strings listed with non-functions left out, and with them included
FunctionsOnly ==
    IF op = "analyzeExports" \/ ~includeNonFunctions THEN Names ELSE {}
AllExports ==
    IF op = "analyzeExports" THEN Range(ret.allExports)
    ELSE IF includeNonFunctions THEN Names
    ELSE {}

\* C9: for every object the walk enters at a path p, and every non-excluded
\* own data property k of it whose value is neither callable, null nor
\* undefined, "p.k (<kind>)" is listed when includeNonFunctions is true and
\* is not listed when it is false, <kind> being "array" for an array and the
\* value's type name otherwise; with includeNonFunctions true an object
\* entered at a non-empty path p is itself listed as "p (object)" (an array
\* as "p (array)").
C9_NonFunctionToggle ==
    Returned /\ op \in {"listExportNames", "analyzeExports"}
    => \A i \in 1..Len(entered) :
          LET e == entered[i]
          IN  /\ \A k \in PlainValueKeys(e.id) :
                    LET entry == WithKind(JoinPath(e.path, k),
                                          Descriptor(e.id, k).value)
                    IN  /\ entry \notin FunctionsOnly
                        /\ op = "analyzeExports" \/ includeNonFunctions
                           => entry \in AllExports
              /\ /\ e.path /= ""
                 /\ heap[e.id].type = "object"
                 /\ op = "analyzeExports" \/ includeNonFunctions
                 => WithKind(e.path, Ref(e.id)) \in AllExports

\* analyzeExports of { s: 'text' }: "s (string)" is in allExports and not in
\* functions
C9_Witness ==
    /\ Returned
    /\ op = "analyzeExports"
    /\ entered /= <<>>
    /\ entered[1].id = pkg.id
    /\ "s" \in PlainValueKeys(pkg.id)
    /\ "s (string)" \in Range(ret.allExports)
    /\ "s (string)" \notin Names

-----------------------------------------------------------------------------
(* C10 *)

\* the keys of a path: "a.b.c" is <<"a", "b", "c">>
RECURSIVE Split(_)
Split(str) ==
    IF \A i \in 1..Len(str) : SubSeq(str, i, i) /= "." THEN <<str>>
    ELSE LET dot == CHOOSE i \in 1..Len(str) :
                        /\ SubSeq(str, i, i) = "."
                        /\ \A j \in 1..(i - 1) : SubSeq(str, j, j) /= "."
         IN  <<SubSeq(str, 1, dot - 1)>> \o Split(SubSeq(str, dot + 1, Len(str)))

\* the value found by reading the keys one after the other, from v on
RECURSIVE Walk(_, _)
Walk(v, keys) ==
    IF keys = <<>> THEN v
    ELSE IF ~IsRef(v) THEN Undefined
    ELSE Walk(Read(v.id, Head(keys)).v, Tail(keys))

\* the values of the Subject graph at a path of the result: read from the
\* Subject or from its default export; the Subject itself for "main"; and,
\* under the root function's own name, what is read from the Subject
FoundAt(path) ==
    LET keys == Split(path)
    IN  {Walk(pkg, keys), Walk(Walk(pkg, <<"default">>), keys)}
        \cup (IF path = "main" THEN {pkg} ELSE {})
        \cup (IF TypeOf(pkg) = "function" /\ Head(keys) = heap[pkg.id].fname
              THEN {Walk(pkg, Tail(keys))}
              ELSE {})

\* C10: every value of the mapping the Callable Extractor returns is an object
\* of the Subject graph, is callable, and is the very object found in the
\* graph at the path that is its key; no key occurs twice.
C10_LiveReferences ==
    Returned /\ op = "getExports"
    => /\ \A i, j \in 1..Len(ret.map) :
             i /= j => ret.map[i].key /= ret.map[j].key
       /\ \A i \in 1..Len(ret.map) :
             /\ ret.map[i].value \in DOMAIN heap
             /\ heap[ret.map[i].value].type = "function"
             /\ Ref(ret.map[i].value) \in FoundAt(ret.map[i].key)

\* getExports of { K: class K { m() {} static s() {} } } returned the class
\* under "K", its static method under "K.s" and its method under
\* "K.prototype.m"
C10_Witness ==
    /\ Returned
    /\ op = "getExports"
    /\ HasKey(ret.map, "K") /\ Lookup(ret.map, "K") = "K"
    /\ HasKey(ret.map, "K.s") /\ Lookup(ret.map, "K.s") = "Ks"
    /\ HasKey(ret.map, "K.prototype.m") /\ Lookup(ret.map, "K.prototype.m") = "Km"

-----------------------------------------------------------------------------
(* Repeated calls *)

\* the configuration a call resolves from the options o: each option given,
\* or its default
Resolve(o) ==
    [maxDepth |-> IF "maxDepth" \in o.given THEN o.maxDepth ELSE 3,
     excludedKeys |->
         IF "excludedKeys" \in o.given THEN o.excludedKeys
         ELSE {"constructor", "prototype", "caller", "arguments", "name",
               "length"},
     includePrivate |-> "includePrivate" \in o.given /\ o.includePrivate,
     includeNonFunctions |->
         "includeNonFunctions" \in o.given /\ o.includeNonFunctions,
     followPrototypes |->
         "followPrototypes" \in o.given => o.followPrototypes,
     includeClasses |-> "includeClasses" \in o.given => o.includeClasses]

-----------------------------------------------------------------------------
(* C11 *)

\* C11: when getExports returns with includeClasses false, its mapping is
\* the mapping an earlier getExports call on the same Subject returned with
\* includeClasses true and the other options equal, less the entries whose
\* value isClass classifies as a class.
C11_ClassesOmitted ==
    Returned /\ op = "getExports" /\ ~includeClasses
    => \A h \in Range(history) :
          /\ h.op = "getExports"
          /\ Resolve(h.options) =
                 [Resolve(options) EXCEPT !.includeClasses = TRUE]
          => Range(ret.map) =
                 {e \in Range(h.ret.map) : ~isClass(Ref(e.value))}

-----------------------------------------------------------------------------
(* C12 *)

\* C12: the record analyzeExports returns is derived. Its functions are
\* what an earlier listExportNames call on the same Subject returned with
\* includeNonFunctions off and the other options as the caller gave them, its
\* allExports what such a call returned with includeNonFunctions on,
\* whatever includeNonFunctions the caller gave; totalFunctions and
\* totalExports are their lengths; hasDefault, isFunction and isObject are
\* pkg.default !== undefined, typeof pkg === 'function' and pkg being a
\* non-null object.
C12_SummaryDerived ==
    Returned /\ op = "analyzeExports"
    => /\ ret.summary.totalFunctions = Len(ret.names)
       /\ ret.summary.totalExports = Len(ret.allExports)
       /\ ret.summary.hasDefault = (ReadVal(pkg, "default").v /= Undefined)
       /\ ret.summary.isFunction
              = (IsRef(pkg) /\ heap[pkg.id].type = "function")
       /\ ret.summary.isObject = (IsRef(pkg) /\ heap[pkg.id].type = "object")
       /\ \A h \in Range(history) :
              /\ h.op = "listExportNames"
              /\ \E nf \in BOOLEAN :
                     [Resolve(h.options) EXCEPT !.includeNonFunctions = nf]
                         = Resolve(options)
              => IF Resolve(h.options).includeNonFunctions
                 THEN ret.allExports = h.ret.names
                 ELSE ret.names = h.ret.names

\* analyzeExports(pkg, { includeNonFunctions: true }) returned after
\* listExportNames(pkg) and listExportNames(pkg, { includeNonFunctions: true })
\* on a Subject holding a function and a string: the two lists differ
C12_Witness ==
    /\ Returned
    /\ op = "analyzeExports"
    /\ Given("includeNonFunctions")
    /\ options.includeNonFunctions
    /\ \E h \in Range(history) :
           h.op = "listExportNames" /\ h.options = NoOptions
    /\ \E h \in Range(history) :
           h.op = "listExportNames" /\ h.options = options
    /\ Len(ret.names) > 0
    /\ Len(ret.allExports) > Len(ret.names)

-----------------------------------------------------------------------------
(* C13 *)

\* C13: a call returns what every earlier call of the same operation on the
\* same Subject with the same options returned, in contents and in order,
\* whatever calls were made in between.
C13_Idempotent ==
    Returned
    => \A h \in Range(history) :
          h.op = op /\ h.options = options => h.ret = ret

\* a third call returned a non-empty result; the first call was the same
\* operation with the same options, the second another operation
C13_Witness ==
    /\ Returned
    /\ Len(history) = 2
    /\ history[1].op = op
    /\ history[1].options = options
    /\ history[2].op /= op
    /\ history[2].ret /= NoResult
    /\ ret /= NoResult
    /\ Cardinality(visited) > 1

-----------------------------------------------------------------------------
(* C14 *)

\* the property paths of at most MaxPathLen keys from the value v, itself
\* reached at `path` through the containers `nodes`: the keys are own keys
\* that are not excluded and hold a data property, the containers are not
\* opaque. Each path comes with its value and its containers, each container
\* with the path it is reached at.
RECURSIVE PathsFrom(_, _, _)
PathsFrom(v, path, nodes) ==
    IF ~IsRef(v) \/ isBuiltinObject(v) \/ Cardinality(nodes) >= MaxPathLen
    THEN {}
    ELSE LET here == nodes \cup {[id |-> v.id, path |-> path]}
             keys == {k \in Range(OwnNames(v.id)) :
                        /\ ~shouldExcludeKey(k, includePrivate, excludedKeys)
                        /\ ~Descriptor(v.id, k).acc}
             at(k) == IF path = "" THEN k ELSE path \o "." \o k
         IN  UNION {{[path |-> at(k), value |-> Descriptor(v.id, k).value,
                      nodes |-> here]}
                    \cup PathsFrom(Descriptor(v.id, k).value, at(k), here) :
                    k \in keys}

\* the paths from the Subject to a function, within the depth limit: the
\* last container lies at a depth of at most maxDepth
FunctionPaths ==
    {p \in PathsFrom(pkg, "", {}) :
        TypeOf(p.value) = "function" /\ Cardinality(p.nodes) - 1 <= maxDepth}

\* C14 (as the code has it): a function reachable from the Subject under
\* several paths is listed by listExportNames under each path whose
\* containers the walk entered at that path; a container shared between two
\* paths is entered at one of them only.
C14_AliasingPreserved ==
    Returned /\ op = "listExportNames"
    => \A p \in FunctionPaths :
          p.nodes \subseteq Range(entered) => p.path \in Names

\* { x: g, a: { deep: g, .. } }: the same function under "x" and "a.deep",
\* both listed
C14_Witness ==
    /\ Returned
    /\ op = "listExportNames"
    /\ \E p, q \in FunctionPaths :
           /\ p.path = "x"
           /\ q.path = "a.deep"
           /\ p.value = q.value
           /\ q.nodes \subseteq Range(entered)
    /\ {"x", "a.deep"} \subseteq Names

\* C14 as stated: a function reachable under two distinct paths, each within
\* the depth limit and using no excluded key, is listed under both, also
\* when it is reached through a container shared between the paths
C14_AsStated ==
    Returned /\ op = "listExportNames"
    => \A p, q \in FunctionPaths :
          p.path /= q.path /\ p.value = q.value
          => p.path \in Names /\ q.path \in Names

-----------------------------------------------------------------------------
(* C15 *)

\* the name or path t is the path p, or lies under it: p.key.., or p (type)
Under(t, p) ==
    \/ t = p
    \/ /\ Len(t) > Len(p)
       /\ SubSeq(t, 1, Len(p)) = p
       /\ SubSeq(t, Len(p) + 1, Len(p) + 1) \in {".", " "}

\* key filtering at the nodes `nodes`, each an object with the path it is
\* reached at. Of an own key that shouldExcludeKey excludes, nothing is
\* listed and nothing entered at or under its path, save the names `exempt`;
\* an own key it does not exclude is listed when it holds an accessor or a
\* function, and with its type when it holds another value and
\* includeNonFunctions is on. Of the prototype of a class the prototype block
\* runs for, an excluded key is not listed and a key that is not excluded and
\* holds a function is.
KeyFiltering(nodes, exempt) ==
    \A e \in nodes :
        /\ \A k \in Range(OwnNames(e.id)) :
              LET p == IF e.path = "" THEN k ELSE e.path \o "." \o k
                  d == Descriptor(e.id, k)
              IN  IF shouldExcludeKey(k, includePrivate, excludedKeys)
                  THEN \A t \in Names \cup {x.path : x \in Range(entered)} :
                          Under(t, p) => t \in exempt
                  ELSE /\ d.acc /\ (d.get \/ d.set) => p \in Names
                       /\ ~d.acc /\ TypeOf(d.value) = "function"
                              => p \in Names
                       /\ /\ ~d.acc
                          /\ includeNonFunctions
                          /\ TypeOf(d.value) /= "function"
                          /\ d.value.t \notin {"null", "undefined"}
                          => Annotated(p, d.value) \in Names
        /\ HasPrototypeBlock(Ref(e.id))
              => LET proto == Read(e.id, "prototype").v.id
                     cn == ClassName(Ref(e.id), e.path)
                 IN  \A k \in Range(OwnNames(proto)) :
                         IF shouldExcludeKey(k, includePrivate, excludedKeys)
                         THEN cn \o "." \o k \notin Names
                         ELSE /\ ~Descriptor(proto, k).acc
                              /\ TypeOf(Descriptor(proto, k).value) = "function"
                              => cn \o "." \o k \in Names

-----------------------------------------------------------------------------
(* C16 *)

\* the accessor properties of the object o whose key is not excluded
AccessorKeys(o) ==
    {k \in Range(OwnNames(o)) :
        /\ ~shouldExcludeKey(k, includePrivate, excludedKeys)
        /\ Descriptor(o, k).acc
        /\ Descriptor(o, k).get \/ Descriptor(o, k).set}

\* C16 (as the code has it): listExportNames lists, at its path, every own
\* accessor property with a key that is not excluded (a getter, a setter or
\* both) of every node explore enters, also when the getter throws, together
\* with every sibling holding a function; no read of such a property makes
\* the call throw.
C16_AccessorsListed ==
    /\ Returned /\ op = "listExportNames"
       => \A e \in Range(entered) :
             AccessorKeys(e.id) /= {}
             => \A k \in Range(OwnNames(e.id)) :
                   /\ ~shouldExcludeKey(k, includePrivate, excludedKeys)
                   /\ \/ k \in AccessorKeys(e.id)
                      \/ TypeOf(Descriptor(e.id, k).value) = "function"
                   => (IF e.path = "" THEN k ELSE e.path \o "." \o k) \in Names
    /\ op = "listExportNames" /\ pc = "thrown"
       => ~IsRef(pkg) \/ ~Read(pkg.id, "default").ok

\* { acc: a getter that throws, x: g }: "acc" and "x" are both listed
C16_Witness ==
    /\ Returned
    /\ op = "listExportNames"
    /\ [id |-> "root", path |-> ""] \in Range(entered)
    /\ "acc" \in AccessorKeys("root")
    /\ Descriptor("root", "acc").throws
    /\ HasOwn("root", "x")
    /\ {"acc", "x"} \subseteq Names

\* C16 as stated: every own accessor property with a key that is not
\* excluded is listed at its path, those of the Subject included (maxDepth
\* at least 0, a Subject that is not opaque)
C16_AsStated ==
    /\ Returned
    /\ op = "listExportNames"
    /\ IsRef(pkg)
    /\ ~isBuiltinObject(pkg)
    /\ maxDepth >= 0
    => \A k \in AccessorKeys(pkg.id) : k \in Names

-----------------------------------------------------------------------------
(* C17 *)

\* C17: for an object Subject whose default property is a function (and a
\* maxDepth of at least 0), listExportNames lists "default" and every other
\* direct callable of the Subject, whatever the number of its named exports
\* and with or without __esModule.
C17_DefaultAndNamed ==
    /\ Returned
    /\ op = "listExportNames"
    /\ IsRef(pkg)
    /\ TypeOf(pkg) = "object"
    /\ ~isBuiltinObject(pkg)
    /\ TypeOf(Read(pkg.id, "default").v) = "function"
    /\ maxDepth >= 0
    => "default" \in Names /\ DirectCallables \subseteq Names

-----------------------------------------------------------------------------
(* C18 *)

\* the value v is of one of the opaque kinds: a RegExp instance, an
\* intrinsic prototype object, a native function, a stock boxed primitive
OpaqueKind(v) ==
    /\ IsRef(v)
    /\ \/ heap[v.id].regexp
       \/ heap[v.id].intrinsic
       \/ heap[v.id].type = "function" /\ heap[v.id].src = "native"
       \/ /\ heap[v.id].ctor \in {"String", "Number", "Boolean"}
          /\ ~heap[v.id].valueOfOwn
          /\ heap[v.id].valueOfType /= "object"

\* of every data property of the nodes `nodes` that holds a value of an
\* opaque kind, listExportNames lists at most the property's own entry (its
\* path when the value is a function; its annotated path otherwise, and only
\* with includeNonFunctions), lists no path that extends it and enters
\* nothing at or under it
OpaqueSuppressed(nodes) ==
    \A e \in nodes :
        \A k \in Range(OwnNames(e.id)) :
            LET d == Descriptor(e.id, k)
                p == IF e.path = "" THEN k ELSE e.path \o "." \o k
            IN  ~d.acc /\ OpaqueKind(d.value)
                => /\ \A t \in Names :
                          Under(t, p)
                          => IF TypeOf(d.value) = "function" THEN t = p
                             ELSE /\ t = Annotated(p, d.value)
                                  /\ includeNonFunctions
                   /\ \A x \in Range(entered) : ~Under(x.path, p)

\* C18 (as the code has it): of a property holding a value of an opaque
\* kind, whether a key of a node explore enters or a key of the Subject,
\* listExportNames lists at most the property's own entry and never a path
\* that extends it; a Subject of an opaque kind yields an empty list unless
\* it is an object with a default property, which the default-export
\* normalization reads before explore tests the Subject.
C18_BuiltinSuppression ==
    Returned /\ op = "listExportNames"
    => /\ OpaqueSuppressed(Range(entered)
                           \cup (IF IsRef(pkg)
                                 THEN {[id |-> pkg.id, path |-> ""]}
                                 ELSE {}))
       /\ /\ OpaqueKind(pkg)
          /\ ~(TypeOf(pkg) = "object"
               /\ Read(pkg.id, "default").v.t /= "undefined")
          => ret.names = <<>>

\* { rx: a RegExp with rx.x = g, x: g } with includeNonFunctions: "rx
\* (object)" and "x" are listed, "rx.x" is not
C18_Witness ==
    /\ Returned
    /\ op = "listExportNames"
    /\ includeNonFunctions
    /\ maxDepth >= 1
    /\ [id |-> "root", path |-> ""] \in Range(entered)
    /\ HasOwn("root", "rx")
    /\ OpaqueKind(Read("root", "rx").v)
    /\ TypeOf(Read(Read("root", "rx").v.id, "x").v) = "function"
    /\ {"rx (object)", "x"} \subseteq Names
    /\ "rx.x" \notin Names

\* C18 as stated: at most the own entry of a property holding a value of an
\* opaque kind, and an empty list for every Subject of an opaque kind
C18_AsStated ==
    Returned /\ op = "listExportNames"
    => /\ OpaqueSuppressed(Range(entered)
                           \cup (IF IsRef(pkg)
                                 THEN {[id |-> pkg.id, path |-> ""]}
                                 ELSE {}))
       /\ OpaqueKind(pkg) => ret.names = <<>>

-----------------------------------------------------------------------------
(* C19 *)

\* C19: the names listExportNames returns are the keys of the mapping an
\* earlier getExports call on the same Subject returned with the same
\* configuration: a prototype method m of a class entered at the path C is
\* listed as "C.prototype.m", and every listed name is a key of the mapping.
C19_NamesAreMapKeys ==
    Returned /\ op = "listExportNames"
    => \A h \in Range(history) :
          h.op = "getExports" /\ Resolve(h.options) = Resolve(options)
          => /\ \A e \in Range(entered) :
                    HasPrototypeBlock(Ref(e.id))
                    => \A m \in Range(PrototypeMethods(Ref(e.id))) :
                           ClassName(Ref(e.id), e.path) \o ".prototype." \o m
                               \in Names
             /\ \A n \in Names : \E x \in Range(h.ret.map) : x.key = n

-----------------------------------------------------------------------------
(* C20 *)

\* C20: within one call, a node whose keys are being visited is in the
\* visited set, and only the innermost call can be one that has not yet
\* tested it; no node is entered twice. An explore or extractCallables call
\* that meets a visited node returns with nothing pushed, nothing assigned,
\* nothing entered and no further call made; the key loop of its parent has
\* contributed the entry of that key (the name, or the mapping entry, of a
\* function-valued key) before the call is made.
C20_CycleGuard ==
    /\ [](/\ \A i \in 1..Len(stack) :
               /\ stack[i].phase = "keys" => stack[i].obj.id \in visited
               /\ i < Len(stack) => stack[i].phase = "keys"
          /\ \A i, j \in 1..Len(entered) :
               entered[i].id = entered[j].id => i = j
          /\ {e.id : e \in Range(entered)} = visited)
    /\ [][/\ pc = "run"
          /\ stack /= <<>>
          => /\ /\ Top.phase = "enter"
                /\ IsRef(Top.obj)
                /\ Top.obj.id \in visited
                => /\ stack' = Pop
                   /\ UNCHANGED <<exports, functions, classes, visited,
                                  entered, calls>>
             /\ /\ Top.phase = "keys"
                /\ Top.keys /= <<>>
                /\ ~Descriptor(Top.obj.id, Head(Top.keys)).acc
                /\ TypeOf(Descriptor(Top.obj.id, Head(Top.keys)).value)
                       = "function"
                /\ Descriptor(Top.obj.id, Head(Top.keys)).value.id
                       \in visited
                => LET newPath == JoinPath(Top.path, Head(Top.keys))
                       value == Descriptor(Top.obj.id, Head(Top.keys)).value
                   IN  /\ op /= "getExports"
                          => exports' = Append(exports, newPath)
                       /\ op = "getExports"
                          => \/ /\ HasKey(functions', newPath)
                                /\ Lookup(functions', newPath) = value.id
                             \/ /\ HasKey(classes', newPath)
                                /\ Lookup(classes', newPath) = value.id
                       /\ visited' = visited
                       /\ entered' = entered]_vars

\* { x: g, y: { deep: g, up: <the root>, me: y } } listed: g is entered once,
\* at "x"; met again at "y.deep" it is listed by the loop over the keys of y
\* and not entered; the root and y, met again at "y.up" and "y.me", are
\* entered once
C20_Witness ==
    /\ Returned
    /\ op = "listExportNames"
    /\ {"x", "y.deep"} \subseteq Names
    /\ [id |-> "G", path |-> "x"] \in Range(entered)
    /\ [id |-> "Y", path |-> "y"] \in Range(entered)
    /\ \A e \in Range(entered) : e.path \notin {"y.deep", "y.up", "y.me"}
    /\ calls > Len(entered)
    /\ Len(SelectSeq(exports, LAMBDA n : n = "y.deep")) = 1
    /\ Len(SelectSeq(exports, LAMBDA n : n = "x")) = 2

-----------------------------------------------------------------------------
(* C21 *)

\* C21: listExportNames lists the function-valued keys of each node it
\* enters in ascending key order, and returns the sequence every earlier
\* listExportNames call with the same options returned on a Subject with the
\* same keys and values in another property-insertion order.
C21_OrderIndependent ==
    Returned /\ op = "listExportNames"
    => /\ \A e \in Range(entered) :
              \A k1, k2 \in Range(FilteredKeys(e.id)) :
                  /\ StrLess(k1, k2)
                  /\ JoinPath(e.path, k1) \in Names
                  /\ JoinPath(e.path, k2) \in Names
                  => FirstIndex(ret.names, JoinPath(e.path, k1))
                         < FirstIndex(ret.names, JoinPath(e.path, k2))
       /\ \A h \in Range(history) :
              h.op = "listExportNames" /\ h.options = options
              => h.ret.names = ret.names

-----------------------------------------------------------------------------
(* C22 *)

\* C22: no name listExportNames returns and no key of the mapping getExports
\* returns has a first segment that is in the excludedKeys the caller passed
\* or, with includePrivate false, begins with an underscore; the named
\* export beside default and __esModule in a default-only wrapper included.
C22_FirstSegmentFiltered ==
    Returned /\ op \in {"listExportNames", "getExports"}
    => \A k \in DOMAIN Chars :
          \/ Given("excludedKeys") /\ k \in options.excludedKeys
          \/ ~includePrivate /\ StartsWith(k, <<"_">>)
          => \A t \in Names \cup {x.key : x \in Range(ret.map)} :
                 ~Under(t, k)

-----------------------------------------------------------------------------
(* C23 *)

\* C23: an instance whose constructor is String, Number, Boolean, Date,
\* RegExp or Error is classified builtin by isBuiltinObject exactly when its
\* valueOf is the intrinsic one, a stock Error instance included; so, with
\* maxDepth at least 1, a listExportNames call that entered the Subject has
\* entered such an instance held by a key that is not excluded exactly when
\* the instance has a valueOf of its own.
C23_BoxedOpacity ==
    LET boxed(o) ==
            /\ heap[o].type = "object"
            /\ ConstructorOf(o) \in {"String", "Number", "Boolean", "Date",
                                      "RegExp", "Error"}
    IN  /\ Returned
        /\ op = "listExportNames"
        /\ maxDepth >= 1
        /\ [id |-> "root", path |-> ""] \in Range(entered)
        => \A k \in Range(FilteredKeys("root")) :
               LET d == Descriptor("root", k)
               IN  ~d.acc /\ IsRef(d.value) /\ boxed(d.value.id)
                   => /\ isBuiltinObject(d.value)
                          <=> ~heap[d.value.id].valueOfOwn
                      /\ (\E e \in Range(entered) : e.id = d.value.id)
                          <=> heap[d.value.id].valueOfOwn

-----------------------------------------------------------------------------
(* C24 *)

\* what explore contributes from the node v itself with no recursive call:
\* "main" for a function, the non-excluded own keys holding an accessor or a
\* function, the annotated keys holding another value when
\* includeNonFunctions is on, and the prototype methods of a class
DirectContribution(v) ==
    (IF TypeOf(v) = "function" THEN {"main"} ELSE {})
    \cup {k \in Range(FilteredKeys(v.id)) :
             LET d == Descriptor(v.id, k)
             IN  \/ d.acc /\ (d.get \/ d.set)
                 \/ ~d.acc /\ TypeOf(d.value) = "function"}
    \cup {Annotated(k, Descriptor(v.id, k).value) :
             k \in {x \in Range(FilteredKeys(v.id)) :
                       /\ ~Descriptor(v.id, x).acc
                       /\ ListsNonFunction(Descriptor(v.id, x).value)}}
    \cup (IF HasPrototypeBlock(v)
          THEN {ClassName(v, "") \o "." \o m :
                   m \in Range(PrototypeMethods(v))}
          ELSE {})

-----------------------------------------------------------------------------
(* C25 *)

\* C25: on a Subject that has a default property and consists of plain
\* objects and plain functions only (no class, no accessor), the keys of the
\* mapping getExports returns are the names every earlier listExportNames
\* call on the Subject returned under the same configuration,
\* includeNonFunctions false.
C25_SameNormalization ==
    /\ Returned
    /\ op = "getExports"
    /\ IsRef(pkg)
    /\ HasOwn(pkg.id, "default")
    /\ \A o \in DOMAIN heap :
           /\ ~heap[o].regexp /\ ~heap[o].array /\ ~heap[o].intrinsic
           /\ heap[o].ctor \in {"Object", "Function"}
           /\ \A i \in 1..Len(heap[o].props) : ~heap[o].props[i].acc
           /\ heap[o].type = "function"
                  => heap[o].src = "function" /\ ~isClass(Ref(o))
    => \A h \in Range(history) :
          /\ h.op = "listExportNames"
          /\ Resolve(h.options) = Resolve(options)
          /\ ~Resolve(options).includeNonFunctions
          => Range(h.ret.names) = {x.key : x \in Range(ret.map)}

-----------------------------------------------------------------------------
(* C26 *)

\* C26: within one call no two nodes are entered at the same path, and
\* every function getExports entered is, when the call returns, the value
\* of the key of its path in the mapping (a class when includeClasses is
\* on): no key has been assigned another reference.
C26_PathsUnique ==
    /\ \A i, j \in 1..Len(entered) :
           entered[i].path = entered[j].path => i = j
    /\ Returned /\ op = "getExports"
       => \A e \in Range(entered) :
              /\ TypeOf(Ref(e.id)) = "function"
              /\ isClass(Ref(e.id)) => includeClasses
              => /\ HasKey(ret.map, ExportName(e.path))
                 /\ Lookup(ret.map, ExportName(e.path)) = e.id

-----------------------------------------------------------------------------
(* C27 *)

\* C27: an object Subject with a default export and three or more other
\* enumerable keys, or with other keys and no __esModule, is scanned without
\* unwrapping by listExportNames and by getExports: with maxDepth at least 0
\* the walk enters the Subject itself at the root path, and never the default
\* export at the root path; the function-valued named exports that are not
\* excluded are reported at their own names (a class by getExports when
\* includeClasses is on); no member of an object default export is reported
\* at the root path.
C27_NoUnwrapOutsidePattern ==
    /\ Returned
    /\ op \in {"listExportNames", "getExports"}
    /\ IsRef(pkg)
    /\ TypeOf(pkg) = "object"
    /\ Read(pkg.id, "default").ok
    /\ Read(pkg.id, "default").v.t /= "undefined"
    /\ LET keys == EnumKeys(pkg.id)
       IN  \/ Len(keys) >= 4
           \/ Len(keys) >= 2 /\ "__esModule" \notin Range(keys)
    => LET def == Read(pkg.id, "default").v
       IN  /\ maxDepth >= 0 => entered /= <<>> /\ entered[1].id = pkg.id
           /\ \A e \in Range(entered) : e.path = "" => e.id = pkg.id
           /\ maxDepth >= 0
              => \A k \in DirectCallables :
                     \/ Reported(k)
                     \/ /\ op = "getExports"
                        /\ isClass(Read(pkg.id, k).v)
                        /\ ~includeClasses
           /\ IsRef(def) /\ TypeOf(def) = "object"
              => \A m \in Range(OwnNames(def.id)) :
                     ~HasOwn(pkg.id, m)
                     => \A t \in Names \cup {x.key : x \in Range(ret.map)} :
                            ~Under(t, m)

\* { default: { a, n }, __esModule: true, b: F, x: g, s: '' } listed: b and x
\* are in the result, a is not
C27_Witness ==
    /\ Returned
    /\ op = "listExportNames"
    /\ IsRef(pkg)
    /\ Read(pkg.id, "default").v = Ref("D")
    /\ HasOwn(pkg.id, "__esModule")
    /\ Len(EnumKeys(pkg.id)) = 5
    /\ maxDepth >= 1
    /\ {"b", "x"} \subseteq Names
    /\ "a" \notin Names
    /\ entered[1] = [id |-> "root", path |-> ""]

-----------------------------------------------------------------------------
(* C28 *)

\* C28: for every max depth of at least 0, each name listExportNames returns
\* has at most maxDepth + 1 dot-separated segments, the names of a class's
\* prototype methods and the names under a callable root included.
C28_DepthCeiling ==
    Returned /\ op = "listExportNames" /\ maxDepth >= 0
    => \A n \in Names : Len(Split(n)) <= maxDepth + 1

\* C28, as the code has it: for every max depth of at least 0, each name
\* listExportNames returns has at most maxDepth + 1 dot-separated segments,
\* except, with max depth 0, the prototype methods of a function Subject,
\* which are named after the function and have two segments.
C28_CeilingButRootClass ==
    Returned /\ op = "listExportNames" /\ maxDepth >= 0
    => \A n \in Names :
           \/ Len(Split(n)) <= maxDepth + 1
           \/ /\ maxDepth = 0
              /\ TypeOf(pkg) = "function"
              /\ HasPrototypeBlock(pkg)
              /\ \E m \in Range(PrototypeMethods(pkg)) :
                     n = ClassName(pkg, "") \o "." \o m
              /\ Len(Split(n)) = 2

\* class C { static s() {} m() {} } listed with max depth 0: "C.m" is in the
\* result
C28_Witness ==
    /\ Returned
    /\ op = "listExportNames"
    /\ pkg = Ref("C")
    /\ maxDepth = 0
    /\ ret.names = <<"main", "s", "C.m">>

-----------------------------------------------------------------------------
(* C29 *)

\* s can be obtained from t by deleting entries
RECURSIVE IsSubsequence(_, _)
IsSubsequence(s, t) ==
    IF s = <<>> THEN TRUE
    ELSE IF t = <<>> THEN FALSE
    ELSE IF Head(s) = Head(t) THEN IsSubsequence(Tail(s), Tail(t))
    ELSE IsSubsequence(s, Tail(t))

\* C29: for every Subject and all options, the functions sequence
\* analyzeExports returns is a subsequence of its allExports sequence: every
\* entry of functions occurs in allExports, in the same relative order; and
\* summary.totalFunctions is at most summary.totalExports.
C29_FunctionsWithinAllExports ==
    Returned /\ op = "analyzeExports"
    => /\ IsSubsequence(ret.names, ret.allExports)
       /\ Range(ret.names) \subseteq Range(ret.allExports)
       /\ ret.summary.totalFunctions <= ret.summary.totalExports

\* an analyzeExports result whose allExports begins with a name that is not
\* in functions, holds a function name after it, and is the longer sequence
C29_Witness ==
    /\ Returned
    /\ op = "analyzeExports"
    /\ Len(ret.names) >= 2
    /\ Len(ret.allExports) > Len(ret.names)
    /\ ret.allExports[1] \notin Range(ret.names)
    /\ ret.allExports[Len(ret.allExports)] \in Range(ret.names)
    /\ ret.summary.totalFunctions < ret.summary.totalExports

-----------------------------------------------------------------------------
(* C30 *)

\* the key is one of the dot-separated segments of the name, annotated or not
HasSegment(n, k) ==
    \E sg \in Range(Split(n)) :
        \/ sg = k
        \/ /\ Len(sg) > Len(k) + 2
           /\ SubSeq(sg, 1, Len(k) + 2) = k \o " ("

\* C30: a list of excluded keys passed by the caller is applied in addition
\* to the default list: with a caller's list, no name listExportNames returns
\* has constructor, prototype, caller, arguments, name or length as a
\* segment, and the walk enters no value at a path with such a segment.
C30_DefaultsStillExcluded ==
    Returned /\ op = "listExportNames" /\ Given("excludedKeys")
    => \A k \in {"constructor", "prototype", "caller", "arguments", "name",
                 "length"} :
           /\ \A n \in Names : ~HasSegment(n, k)
           /\ \A e \in Range(entered) : ~HasSegment(e.path, k)

\* C30, as the code has it: the caller's list replaces the default list.
\* With a caller's list that does not hold them, the prototype of every
\* function the walk enters above the depth limit is entered too, and with
\* includeNonFunctions the name of every function the walk enters is listed
\* as "<path>.name (string)"; constructor and length, which the key test
\* excludes by itself, are in no name. Without a caller's list none of the six
\* default keys is a segment of a name or of a path the walk enters.
C30_CallerListReplaces ==
    Returned /\ op = "listExportNames"
    => /\ Given("excludedKeys")
          => /\ \A e \in Range(entered) :
                    /\ TypeOf(Ref(e.id)) = "function"
                    /\ HasOwn(e.id, "prototype")
                    /\ "prototype" \notin options.excludedKeys
                    /\ e.path = "" \/ Len(Split(e.path)) < maxDepth
                    /\ ~isBuiltinObject(Read(e.id, "prototype").v)
                    => \E p \in Range(entered) :
                           p.id = Read(e.id, "prototype").v.id
             /\ \A e \in Range(entered) :
                    /\ TypeOf(Ref(e.id)) = "function"
                    /\ includeNonFunctions
                    /\ "name" \notin options.excludedKeys
                    => Annotated(JoinPath(e.path, "name"),
                                 Read(e.id, "name").v) \in Names
             /\ \A n \in Names :
                    ~HasSegment(n, "constructor") /\ ~HasSegment(n, "length")
       /\ ~Given("excludedKeys")
          => \A k \in {"constructor", "prototype", "caller", "arguments",
                       "name", "length"} :
                 /\ \A n \in Names : ~HasSegment(n, k)
                 /\ \A e \in Range(entered) : ~HasSegment(e.path, k)

\* { K: class K { static s() {} m() {} } } listed with excludedKeys: ['x']
\* and includeNonFunctions: the prototype is walked and the name is listed
C30_Witness ==
    /\ Returned
    /\ op = "listExportNames"
    /\ Given("excludedKeys")
    /\ options.excludedKeys = {"x"}
    /\ includeNonFunctions
    /\ {"K.m", "K.prototype.m", "K.name (string)"} \subseteq Names
    /\ \E e \in Range(entered) : e.id = "KP" /\ e.path = "K.prototype"

=============================================================================
